---------------------------- MODULE Spec2Model ----------------------------
(***************************************************************************)
(* Tool permissions of core/tools/permissions: the pattern matcher, the    *)
(* policy evaluator (checkToolPermission), the permissions.yaml loader and *)
(* the ToolPermissionsService that owns the current policies and reloads   *)
(* them when the file changes.                                             *)
(*                                                                         *)
(* Strings are sequences of one-character strings, so that the glob        *)
(* matcher and the pattern parser work on characters as the regular        *)
(* expressions of the source do.  An optional value (undefined / present)  *)
(* is a sequence of length 0 or 1.                                         *)
(***************************************************************************)
EXTENDS Integers, Sequences, FiniteSets, TLC

VARIABLES
  file,         \* ~/.continue/permissions.yaml as the file system holds it
  permissions,  \* ToolPermissionsService.permissions
  enabled,      \* ToolPermissionsService.enabled
  watchHandle,  \* ToolPermissionsService.watchHandle: 0 (null) or a handle
  handles,      \* every fs.FSWatcher created so far: open flag, close() count
  events,       \* notifications of open watchers queued for delivery
  inits,        \* initialize() calls suspended at their await, by what they wait for
  escaped,      \* an exception left initialize() or the watch callback
  counts,       \* initialize() calls, file changes and reload()s so far
  last,         \* the most recent step: what it was, read, replaced and returned
  disposed,     \* dispose() has been called, and initialize() not since
  history,      \* what the latest reload() read, whether the reload() before it
                \* read the same, and how the latest initialize() to end ended
  call,         \* evaluator harness: the inputs of a checkToolPermission call
  result,       \* evaluator harness: what that call returned
  observed      \* evaluator harness: the evaluateToolCallPolicy calls it made,
                \* and whether an exception reached the caller

serviceVars == <<file, permissions, enabled, watchHandle, handles, events,
                 inits, escaped, counts, last, disposed, history>>

harnessVars == <<call, result, observed>>

vars == <<file, permissions, enabled, watchHandle, handles, events, inits,
          escaped, counts, last, disposed, history, call, result, observed>>

-----------------------------------------------------------------------------
(* Strings *)

s_star == <<"*">>
s_run_terminal_command ==
  <<"r","u","n","_","t","e","r","m","i","n","a","l","_","c","o","m","m","a","n","d">>
s_runTerminalCommand ==
  <<"r","u","n","T","e","r","m","i","n","a","l","C","o","m","m","a","n","d">>
s_read_file == <<"r","e","a","d","_","f","i","l","e">>
s_read_glob == <<"r","e","a","d","_","*">>
s_unknown_tool == <<"u","n","k","n","o","w","n","_","t","o","o","l">>
s_git_glob == <<"g","i","t","*">>
s_sudo_glob == <<"s","u","d","o","*">>
s_git_status == <<"g","i","t"," ","s","t","a","t","u","s">>
s_sudo_rm == <<"s","u","d","o"," ","r","m"," ","-","r","f"," ","/">>
s_ls == <<"l","s">>
s_empty == <<>>

\* "name(args)"
WithArgs(name, args) == name \o <<"(">> \o args \o <<")">>

\* The line terminators of ECMAScript, which "." in a regular expression
\* without the s flag does not match.
LineTerminators == {"\n", "\r"}

Includes(s, c) == \E i \in 1..Len(s) : s[i] = c

StartsWith(s, p) == Len(s) >= Len(p) /\ SubSeq(s, 1, Len(p)) = p

-----------------------------------------------------------------------------
(* permissionChecker.ts *)

PermissionPolicies == {"allow", "ask", "exclude"}
ToolPolicies == {"allowedWithoutPermission", "allowedWithPermission", "disabled"}

\* new RegExp("^" + escaped.replace(/\*/g, ".*").replace(/\?/g, ".") + "$").test(s):
\* every character of the pattern other than * and ? is escaped or literal,
\* * is ".*" and ? is ".", anchored at both ends.
RECURSIVE RegexTest(_, _)
RegexTest(pattern, s) ==
  IF pattern = <<>> THEN s = <<>>
  ELSE IF Head(pattern) = "*"
    THEN \/ RegexTest(Tail(pattern), s)
         \/ /\ s # <<>>
            /\ Head(s) \notin LineTerminators
            /\ RegexTest(pattern, Tail(s))
  ELSE IF Head(pattern) = "?"
    THEN /\ s # <<>>
         /\ Head(s) \notin LineTerminators
         /\ RegexTest(Tail(pattern), Tail(s))
  ELSE /\ s # <<>>
       /\ Head(s) = Head(pattern)
       /\ RegexTest(Tail(pattern), Tail(s))

HasGlob(pattern) == Includes(pattern, "*") \/ Includes(pattern, "?")

\* pattern.match(/^(?:run_terminal_command|runTerminalCommand)\((.+)\)$/):
\* the captured command pattern, as an optional value.
CommandMatch(pattern) ==
  LET prefixes == {s_run_terminal_command \o <<"(">>, s_runTerminalCommand \o <<"(">>}
      hit == {p \in prefixes :
                /\ StartsWith(pattern, p)
                /\ Len(pattern) >= Len(p) + 2
                /\ pattern[Len(pattern)] = ")"
                /\ \A i \in (Len(p) + 1)..(Len(pattern) - 1) :
                     pattern[i] \notin LineTerminators}
  IN IF hit = {} THEN <<>>
     ELSE LET p == CHOOSE q \in hit : TRUE
          IN <<SubSeq(pattern, Len(p) + 1, Len(pattern) - 1)>>

\* toolArguments: a function from the names of the arguments present to
\* their (string) values.
HasArg(args, key) == key \in DOMAIN args

matchesToolPattern(toolName, pattern, toolArguments) ==
  IF pattern = s_star THEN TRUE
  ELSE IF pattern = toolName THEN TRUE
  ELSE LET commandMatch == CommandMatch(pattern) IN
    IF commandMatch # <<>>
      THEN LET isTerminalTool == toolName = s_runTerminalCommand
                                   \/ toolName = s_run_terminal_command
           IN \* toolArguments?.command is falsy for a missing and for an empty command
              IF /\ isTerminalTool
                 /\ HasArg(toolArguments, "command")
                 /\ toolArguments["command"] # <<>>
                THEN LET commandPattern == commandMatch[1]
                         command == toolArguments["command"]
                     IN IF HasGlob(commandPattern)
                          THEN RegexTest(commandPattern, command)
                          ELSE command = commandPattern
                ELSE FALSE
    ELSE IF HasGlob(pattern) THEN RegexTest(pattern, toolName)
    ELSE FALSE

\* A matchesArguments for which one matching key is enough.
matchesArgumentsAnyKey(args, patterns) ==
  IF patterns = <<>> THEN TRUE
  ELSE \E key \in DOMAIN patterns[1] :
         LET pattern == patterns[1][key] IN
         IF pattern = s_star THEN TRUE
         ELSE IF HasGlob(pattern)
           THEN LET stringValue == IF HasArg(args, key) THEN args[key] ELSE <<>>
                IN RegexTest(pattern, stringValue)
           ELSE HasArg(args, key) /\ args[key] = pattern

\* patterns: the optional argumentMatches of a policy, a function from
\* argument names to pattern strings.
matchesArguments(args, patterns) ==
  IF patterns = <<>> THEN TRUE
  ELSE \A key \in DOMAIN patterns[1] :
         LET pattern == patterns[1][key] IN
         IF pattern = s_star THEN TRUE
         ELSE IF HasGlob(pattern)
           THEN \* String(argValue ?? "")
                LET stringValue == IF HasArg(args, key) THEN args[key] ELSE <<>>
                IN RegexTest(pattern, stringValue)
           ELSE HasArg(args, key) /\ args[key] = pattern

permissionPolicyToToolPolicy(permission) ==
  CASE permission = "allow" -> "allowedWithoutPermission"
    [] permission = "ask" -> "allowedWithPermission"
    [] permission = "exclude" -> "disabled"
    [] OTHER -> "allowedWithPermission"

\* A conversion whose default is the lenient decision.
toolPolicyToPermissionPolicyDefaultAllow(policy) ==
  CASE policy = "allowedWithoutPermission" -> "allow"
    [] policy = "allowedWithPermission" -> "ask"
    [] policy = "disabled" -> "exclude"
    [] OTHER -> "allow"

toolPolicyToPermissionPolicy(policy) ==
  CASE policy = "allowedWithoutPermission" -> "allow"
    [] policy = "allowedWithPermission" -> "ask"
    [] policy = "disabled" -> "exclude"
    [] OTHER -> "ask"


\* A tool's dynamic evaluation, evaluateToolCallPolicy(basePolicy, args,
\* processedArgs), is code of the tool, not of the permissions system.  The
\* evaluators considered: the constant ones of the tests, one that returns a
\* value outside the ToolPolicy vocabulary, and one that returns basePolicy.
Evaluators ==
  {"disabled", "allowedWithPermission", "allowedWithoutPermission", "unknown", "base"}

evaluateToolCallPolicy(evaluator, basePolicy, toolArguments, processedArgs) ==
  IF evaluator = "base" THEN basePolicy ELSE evaluator

\* The loop of checkToolPermission without its break: the last matching policy.
RECURSIVE ScanPoliciesNoBreak(_, _, _, _)
ScanPoliciesNoBreak(policies, i, toolName, toolArguments) ==
  IF i > Len(policies) THEN 0
  ELSE LET rest == ScanPoliciesNoBreak(policies, i + 1, toolName, toolArguments)
       IN IF rest # 0 THEN rest
          ELSE IF /\ matchesToolPattern(toolName, policies[i].tool, toolArguments)
                  /\ matchesArguments(toolArguments, policies[i].argumentMatches)
            THEN i
          ELSE 0

\* const policies = permissions.policies; for (const policy of policies) { if
\* (matches) { ...; break; } }: the index of the policy the loop stops at, 0
\* when it runs to the end.
RECURSIVE ScanPolicies(_, _, _, _)
ScanPolicies(policies, i, toolName, toolArguments) ==
  IF i > Len(policies) THEN 0
  ELSE IF /\ matchesToolPattern(toolName, policies[i].tool, toolArguments)
          /\ matchesArguments(toolArguments, policies[i].argumentMatches)
    THEN i
  ELSE ScanPolicies(policies, i + 1, toolName, toolArguments)

FirstMatchIndex(policies, toolName, toolArguments) ==
  ScanPolicies(policies, 1, toolName, toolArguments)

\* let basePermission: PermissionPolicy = "allow"
DefaultPermissionAsk == "ask"
DefaultPermission == "allow"

\* The static part of checkToolPermission: basePermission and matchedPolicy
\* after the loop.
StaticScan(toolName, toolArguments, policies) ==
  LET i == FirstMatchIndex(policies, toolName, toolArguments)
  IN [basePermission |-> IF i = 0 THEN DefaultPermission ELSE policies[i].permission,
      matchedPolicy |-> IF i = 0 THEN <<>> ELSE <<policies[i]>>]

\* A combination in which the dynamic evaluation overrides the static one.
MostRestrictiveDynamicWins(basePermission, evaluatedPermission) ==
  evaluatedPermission

\* "Return the most restrictive between YAML and evaluated policy"
MostRestrictive(basePermission, evaluatedPermission) ==
  IF basePermission = "exclude" \/ evaluatedPermission = "exclude" THEN "exclude"
  ELSE IF basePermission = "ask" \/ evaluatedPermission = "ask" THEN "ask"
  ELSE "allow"

\* tool?.evaluateToolCallPolicy
HasDynamicPolicy(tool) == tool # <<>> /\ tool[1].evaluateToolCallPolicy # <<>>

\* A check that skips the dynamic evaluation of a call that is excluded
\* already.
DynamicEvaluationsSkipExclude(toolName, toolArguments, policies, processedArgs, tool) ==
  LET basePermission == StaticScan(toolName, toolArguments, policies).basePermission
  IN IF HasDynamicPolicy(tool) /\ basePermission # "exclude"
       THEN <<[basePolicy |-> permissionPolicyToToolPolicy(basePermission),
               toolArguments |-> toolArguments,
               processedArgs |-> processedArgs]>>
       ELSE <<>>

\* The calls of tool.evaluateToolCallPolicy that checkToolPermission makes, in
\* order, each with the arguments it passes.
DynamicEvaluations(toolName, toolArguments, policies, processedArgs, tool) ==
  LET basePermission == StaticScan(toolName, toolArguments, policies).basePermission
  IN IF HasDynamicPolicy(tool)
       THEN <<[basePolicy |-> permissionPolicyToToolPolicy(basePermission),
               toolArguments |-> toolArguments,
               processedArgs |-> processedArgs]>>
       ELSE <<>>

\* A check that reports the matched policy only when its decision stands.
checkToolPermissionDropsOverridden(toolName, toolArguments, policies, processedArgs, tool) ==
  LET static == StaticScan(toolName, toolArguments, policies)
      basePermission == static.basePermission
      matchedPolicy == static.matchedPolicy
  IN IF HasDynamicPolicy(tool)
       THEN LET basePolicy == permissionPolicyToToolPolicy(basePermission)
                evaluatedPolicy ==
                  evaluateToolCallPolicy(tool[1].evaluateToolCallPolicy[1],
                                         basePolicy, toolArguments, processedArgs)
                evaluatedPermission == toolPolicyToPermissionPolicy(evaluatedPolicy)
                permission == MostRestrictive(basePermission, evaluatedPermission)
            IN [permission |-> permission,
                matchedPolicy |-> IF permission = basePermission
                                    THEN matchedPolicy ELSE <<>>]
       ELSE [permission |-> basePermission, matchedPolicy |-> matchedPolicy]

checkToolPermission(toolName, toolArguments, policies, processedArgs, tool) ==
  LET static == StaticScan(toolName, toolArguments, policies)
      basePermission == static.basePermission
      matchedPolicy == static.matchedPolicy
  IN IF HasDynamicPolicy(tool)
       THEN LET basePolicy == permissionPolicyToToolPolicy(basePermission)
                evaluatedPolicy ==
                  evaluateToolCallPolicy(tool[1].evaluateToolCallPolicy[1],
                                         basePolicy, toolArguments, processedArgs)
                evaluatedPermission == toolPolicyToPermissionPolicy(evaluatedPolicy)
            IN [permission |-> MostRestrictive(basePermission, evaluatedPermission),
                matchedPolicy |-> matchedPolicy]
       ELSE [permission |-> basePermission, matchedPolicy |-> matchedPolicy]

\* A character class that leaves the parentheses out.
EscapedCharactersNoParentheses ==
  {".", "+", "^", "$", "{", "}", "|", "[", "]", "\\"}

\* /[.+^${}()|[\]\\]/g: the characters that replace(..., "\\$&") escapes.
EscapedCharacters ==
  {".", "+", "^", "$", "{", "}", "(", ")", "|", "[", "]", "\\"}

\* escaped.replace(/\*/g, ".*").replace(/\?/g, "."): the source handed to new
\* RegExp, as tokens: an escaped character, the dot, the star quantifier, or
\* a character that went into the source as it was.
RECURSIVE RegexPattern(_)
RegexPattern(pattern) ==
  IF pattern = <<>> THEN <<>>
  ELSE LET c == Head(pattern)
           tokens == IF c \in EscapedCharacters THEN <<[kind |-> "escaped", char |-> c]>>
                     ELSE IF c = "*" THEN <<[kind |-> "dot", char |-> "."],
                                            [kind |-> "star", char |-> "*"]>>
                     ELSE IF c = "?" THEN <<[kind |-> "dot", char |-> "."]>>
                     ELSE <<[kind |-> "char", char |-> c]>>
       IN tokens \o RegexPattern(Tail(pattern))

Raw(source, i, c) == source[i].kind = "char" /\ source[i].char = c

\* Parentheses left unescaped open and close groups, which must balance.
RECURSIVE UnbalancedGroups(_, _, _)
UnbalancedGroups(source, i, depth) ==
  IF i > Len(source) THEN depth # 0
  ELSE IF Raw(source, i, "(") THEN UnbalancedGroups(source, i + 1, depth + 1)
  ELSE IF Raw(source, i, ")")
    THEN depth = 0 \/ UnbalancedGroups(source, i + 1, depth - 1)
  ELSE UnbalancedGroups(source, i + 1, depth)

\* new RegExp(`^${regexPattern}$`) throws a SyntaxError: a group that is not
\* closed or not opened, a class that is not closed, a backslash at the end,
\* or a + with nothing to repeat.
RegExpThrows(regexPattern) ==
  \E source \in {regexPattern} :
    \/ UnbalancedGroups(source, 1, 0)
    \/ \E i \in 1..Len(source) :
         /\ Raw(source, i, "[")
         /\ \A j \in (i + 1)..Len(source) : ~Raw(source, j, "]")
    \/ source # <<>> /\ Raw(source, Len(source), "\\")
    \/ \E i \in 1..Len(source) :
         /\ Raw(source, i, "+")
         /\ \/ i = 1
            \/ source[i - 1].kind = "star"
            \/ \E c \in {"+", "(", "|", "^"} : Raw(source, i - 1, c)

\* matchesToolPattern throws: it compiles the command pattern, or the whole
\* pattern, on the paths that reach new RegExp.
matchesToolPatternThrows(toolName, pattern, toolArguments) ==
  IF pattern = s_star \/ pattern = toolName THEN FALSE
  ELSE LET commandMatch == CommandMatch(pattern) IN
    IF commandMatch # <<>>
      THEN /\ toolName = s_runTerminalCommand \/ toolName = s_run_terminal_command
           /\ HasArg(toolArguments, "command")
           /\ toolArguments["command"] # <<>>
           /\ HasGlob(commandMatch[1])
           /\ RegExpThrows(RegexPattern(commandMatch[1]))
    ELSE HasGlob(pattern) /\ RegExpThrows(RegexPattern(pattern))

\* matchesArguments throws: one of the patterns it may compile does (the
\* order of the keys is not kept, so a key it would not reach counts too).
matchesArgumentsThrows(args, patterns) ==
  /\ patterns # <<>>
  /\ \E key \in DOMAIN patterns[1] :
       /\ patterns[1][key] # s_star
       /\ HasGlob(patterns[1][key])
       /\ RegExpThrows(RegexPattern(patterns[1][key]))

\* The loop of checkToolPermission throws before it stops: nothing in
\* checkToolPermission catches.
RECURSIVE ScanPoliciesThrows(_, _, _, _)
ScanPoliciesThrows(policies, i, toolName, toolArguments) ==
  IF i > Len(policies) THEN FALSE
  ELSE IF matchesToolPatternThrows(toolName, policies[i].tool, toolArguments) THEN TRUE
  ELSE IF ~matchesToolPattern(toolName, policies[i].tool, toolArguments)
    THEN ScanPoliciesThrows(policies, i + 1, toolName, toolArguments)
  ELSE IF matchesArgumentsThrows(toolArguments, policies[i].argumentMatches) THEN TRUE
  ELSE IF matchesArguments(toolArguments, policies[i].argumentMatches) THEN FALSE
  ELSE ScanPoliciesThrows(policies, i + 1, toolName, toolArguments)

\* checkToolPermission throws instead of returning; the conversions and
\* the comparison after the loop cannot.
checkToolPermissionThrows(toolName, toolArguments, policies) ==
  ScanPoliciesThrows(policies, 1, toolName, toolArguments)

\* A filter that keeps the tools that are allowed only.
filterExcludedToolsAllowedOnly(tools, policies) ==
  SelectSeq(tools,
            LAMBDA tool :
              checkToolPermission(tool.name, [k \in {} |-> <<>>], policies, <<>>,
                                  <<tool>>).permission = "allow")

\* A filter that drops a tool as soon as an exclude policy names it, whatever
\* the argument patterns of the policy.
filterExcludedToolsByName(tools, policies) ==
  SelectSeq(tools,
            LAMBDA tool :
              /\ checkToolPermission(tool.name, [k \in {} |-> <<>>], policies, <<>>,
                                     <<tool>>).permission # "exclude"
              /\ \A i \in 1..Len(policies) :
                   ~(/\ policies[i].permission = "exclude"
                     /\ matchesToolPattern(tool.name, policies[i].tool,
                                           [k \in {} |-> <<>>])))

\* tools.filter((tool) => checkToolPermission(tool.function.name, {},
\* permissions, undefined, tool).permission !== "exclude")
filterExcludedTools(tools, policies) ==
  SelectSeq(tools,
            LAMBDA tool :
              checkToolPermission(tool.name, [k \in {} |-> <<>>], policies, <<>>,
                                  <<tool>>).permission # "exclude")

-----------------------------------------------------------------------------
(* Inputs of the evaluator harness *)

\* The longest policy list the harness draws.
MaxPolicies == 3

Policy(tool, permission) ==
  [tool |-> tool, permission |-> permission, argumentMatches |-> <<>>]

PolicyWithArgs(tool, permission, key, pattern) ==
  [tool |-> tool, permission |-> permission,
   argumentMatches |-> <<[k \in {key} |-> pattern]>>]

\* The policies of the tests of checkToolPermission and of the README.
PolicyPool ==
  { Policy(s_run_terminal_command, "ask"),
    Policy(s_star, "allow"),
    PolicyWithArgs(s_run_terminal_command, "allow", "command", s_git_glob),
    PolicyWithArgs(s_run_terminal_command, "exclude", "command", s_sudo_glob),
    Policy(WithArgs(s_run_terminal_command, s_sudo_glob), "exclude"),
    Policy(s_read_glob, "exclude") }

PolicyLists == UNION {[1..n -> PolicyPool] : n \in 0..MaxPolicies}

NoArguments == [k \in {} |-> <<>>]
CommandArguments(command) == [k \in {"command"} |-> command]

ToolNames == {s_run_terminal_command, s_read_file, s_unknown_tool}

ArgumentSets ==
  {NoArguments, CommandArguments(s_git_status), CommandArguments(s_sudo_rm)}

Tool(name, evaluator) == [name |-> name, evaluateToolCallPolicy |-> evaluator]

s_resolved == <<"/","b","i","n","/","l","s">>

\* The optional processedArgs parameter: undefined, or preprocessed arguments.
ProcessedArgs == {<<>>, <<[k \in {"resolved"} |-> s_resolved]>>}

\* The optional tool parameter of a call of the tool called name.
ToolsNamed(name) ==
  {<<>>, <<Tool(name, <<>>)>>} \cup {<<Tool(name, <<e>>)>> : e \in Evaluators}

-----------------------------------------------------------------------------
(* permissionsYamlLoader.ts *)

\* The file system's view of ~/.continue/permissions.yaml.  A file that is
\* there is modelled by what YAML.parse makes of its content:
\*   "unparsable"  fs.readFileSync or YAML.parse throws
\*   "scalar"      null (an empty file) or a scalar
\*   "object"      a mapping (or a list, whose keys are its indices); doc
\*                 gives each key's value: a list of pattern strings, a falsy
\*                 value (null, false, 0, "") or any other, truthy, value.
ListValue(items) == [type |-> "list", items |-> items]
FalsyValue == [type |-> "falsy", items |-> <<>>]
TruthyValue == [type |-> "truthy", items |-> <<>>]

NoDoc == [k \in {} |-> FalsyValue]
NoDirectory == [kind |-> "nodir", doc |-> NoDoc]
MissingFile == [kind |-> "missing", doc |-> NoDoc]
UnparsableFile == [kind |-> "unparsable", doc |-> NoDoc]
ScalarFile == [kind |-> "scalar", doc |-> NoDoc]
ObjectFile(doc) == [kind |-> "object", doc |-> doc]

Exists(f) == f.kind \notin {"nodir", "missing"}

Whitespace == {" ", "\t", "\n", "\r"}

RECURSIVE TrimStart(_)
TrimStart(s) ==
  IF s # <<>> /\ Head(s) \in Whitespace THEN TrimStart(Tail(s)) ELSE s

RECURSIVE TrimEnd(_)
TrimEnd(s) ==
  IF s # <<>> /\ s[Len(s)] \in Whitespace THEN TrimEnd(SubSeq(s, 1, Len(s) - 1)) ELSE s

Trim(s) == TrimEnd(TrimStart(s))

\* The index of the first c in s, 0 when there is none.
IndexOf(s, c) ==
  IF Includes(s, c) THEN CHOOSE i \in 1..Len(s) : s[i] = c /\ \A j \in 1..(i - 1) : s[j] # c
  ELSE 0

\* const toolArgMappings = { run_terminal_command: "command", ... }
toolArgMappings ==
  << <<s_run_terminal_command, "command">>,
     <<s_runTerminalCommand, "command">>,
     <<s_read_file, "file_path">>,
     <<<<"r","e","a","d","_","f","i","l","e","_","r","a","n","g","e">>, "file_path">>,
     <<<<"c","r","e","a","t","e","_","n","e","w","_","f","i","l","e">>, "file_path">>,
     <<<<"e","d","i","t","_","e","x","i","s","t","i","n","g","_","f","i","l","e">>, "file_path">>,
     <<<<"g","r","e","p","_","s","e","a","r","c","h">>, "query">>,
     <<<<"f","i","l","e","_","g","l","o","b","_","s","e","a","r","c","h">>, "pattern">>,
     <<<<"s","e","a","r","c","h","_","w","e","b">>, "query">> >>

s_constructor == <<"c","o","n","s","t","r","u","c","t","o","r">>
s_toString == <<"t","o","S","t","r","i","n","g">>
s___proto__ == <<"_","_","p","r","o","t","o","_","_">>

\* toolArgMappings is an object literal, so toolArgMappings[name] also finds
\* the properties it inherits from Object.prototype, and these are truthy:
\* here, for some of them, the string that the computed property name
\* [argKey] makes of the value found.
ObjectPrototype ==
  << <<s_constructor, "function Object() { [native code] }">>,
     <<s_toString, "function toString() { [native code] }">>,
     <<s___proto__, "[object Object]">> >>

\* table[name], none (undefined) when name is not a property of the table.
Lookup(table, name) ==
  IF \E i \in 1..Len(table) : table[i][1] = name
    THEN LET i == CHOOSE j \in 1..Len(table) : table[j][1] = name IN <<table[i][2]>>
    ELSE <<>>

\* toolArgMappings[normalizedName] || "pattern"
ArgKey(normalizedName) ==
  IF Lookup(toolArgMappings, normalizedName) # <<>>
    THEN Lookup(toolArgMappings, normalizedName)[1]
  ELSE IF Lookup(ObjectPrototype, normalizedName) # <<>>
    THEN Lookup(ObjectPrototype, normalizedName)[1]
  ELSE "pattern"

\* pattern.match(/^([^(]+)(?:\(([^)]*)\))?$/): whether it matches, the tool
\* name and the optional args it captures.
PatternMatch(pattern) ==
  LET open == IndexOf(pattern, "(")
      n == Len(pattern)
  IN IF open = 0
       THEN [matches |-> n >= 1, toolName |-> pattern, args |-> <<>>]
       ELSE [matches |-> /\ open > 1
                         /\ pattern[n] = ")"
                         /\ \A i \in (open + 1)..(n - 1) : pattern[i] # ")",
             toolName |-> SubSeq(pattern, 1, open - 1),
             args |-> <<SubSeq(pattern, open + 1, n - 1)>>]

\* The policy parseToolPattern returns, or threw when it throws.
parseToolPattern(pattern, permission) ==
  LET match == PatternMatch(pattern) IN
  IF ~match.matches THEN [threw |-> TRUE, policy |-> <<>>]
  ELSE LET normalizedName == Trim(match.toolName)
           trimmedArgs == IF match.args = <<>> THEN <<>> ELSE Trim(match.args[1])
       IN [threw |-> FALSE,
           policy |-> << IF trimmedArgs # <<>>
                           THEN PolicyWithArgs(normalizedName, permission,
                                               ArgKey(normalizedName), trimmedArgs)
                           ELSE Policy(normalizedName, permission) >>]

\* The patterns of config[key] that the loops of yamlConfigToPolicies walk:
\* none when the key is absent or its value falsy.
ConfigList(config, key) ==
  IF key \in DOMAIN config /\ config[key].type = "list" THEN config[key].items ELSE <<>>

\* policies.push(parseToolPattern(pattern, permission)) for entries i..: the
\* policies pushed, and whether a parseToolPattern threw on the way.
RECURSIVE PushPolicies(_, _, _)
PushPolicies(entries, i, policies) ==
  IF i > Len(entries) THEN [threw |-> FALSE, policies |-> policies]
  ELSE LET parsed == parseToolPattern(entries[i].pattern, entries[i].permission)
       IN IF parsed.threw THEN [threw |-> TRUE, policies |-> policies]
          ELSE PushPolicies(entries, i + 1, Append(policies, parsed.policy[1]))

\* A yamlConfigToPolicies that walks the lists in the order allow, ask, exclude.
yamlConfigToPoliciesAllowFirst(config) ==
  LET entriesOf(key) ==
        [i \in 1..Len(ConfigList(config, key)) |->
           [pattern |-> ConfigList(config, key)[i], permission |-> key]]
  IN PushPolicies(entriesOf("allow") \o entriesOf("ask") \o entriesOf("exclude"),
                  1, <<>>)

\* A yamlConfigToPolicies that walks the lists in the order ask, exclude, allow.
yamlConfigToPoliciesAskFirst(config) ==
  LET entriesOf(key) ==
        [i \in 1..Len(ConfigList(config, key)) |->
           [pattern |-> ConfigList(config, key)[i], permission |-> key]]
  IN PushPolicies(entriesOf("ask") \o entriesOf("exclude") \o entriesOf("allow"),
                  1, <<>>)

yamlConfigToPolicies(config) ==
  LET entriesOf(key) ==
        [i \in 1..Len(ConfigList(config, key)) |->
           [pattern |-> ConfigList(config, key)[i], permission |-> key]]
  IN PushPolicies(entriesOf("exclude") \o entriesOf("ask") \o entriesOf("allow"),
                  1, <<>>)

\* const validKeys = ["allow", "ask", "exclude"]
validKeys == {"allow", "ask", "exclude"}

\* A loadPermissionsYaml that returns whatever mapping it parsed.
loadPermissionsYamlUnvalidated(f) ==
  IF Exists(f) /\ f.kind = "object" THEN <<f.doc>> ELSE <<>>

\* The config loadPermissionsYaml returns, as an optional value (null: <<>>).
loadPermissionsYaml(f) ==
  IF ~Exists(f) THEN <<>>
  ELSE IF f.kind = "unparsable" THEN <<>>
  ELSE IF f.kind = "object"
    THEN LET parsed == f.doc
             hasValidStructure ==
               \A key \in DOMAIN parsed :
                 /\ key \in validKeys
                 /\ (parsed[key].type = "falsy" \/ parsed[key].type = "list")
         IN IF hasValidStructure THEN <<parsed>> ELSE <<>>
  ELSE <<>>

\* What ensurePermissionsYamlExists writes: allow: [], ask: [], exclude: []
DefaultFile ==
  ObjectFile([allow |-> ListValue(<<>>), ask |-> ListValue(<<>>),
              exclude |-> ListValue(<<>>)])

-----------------------------------------------------------------------------
(* ToolPermissionsService.ts *)

\* A ToolPermissions object: its policies and, for each policy object, the
\* reload() that allocated it (0: built by a caller).  isNull stands for the
\* null of "ToolPermissions | null".
Null == [isNull |-> TRUE, policies |-> <<>>, alloc |-> <<>>]

ToolPermissions(policies, alloc) ==
  [isNull |-> FALSE, policies |-> policies, alloc |-> [i \in 1..Len(policies) |-> alloc]]

\* The try block of reload(): the value it assigns to this.permissions, none
\* when yamlConfigToPolicies throws before the assignment.  built.policies is
\* the local array of yamlConfigToPolicies, lost when it throws.
ReloadBuilt(built, alloc) ==
  IF built.threw
    THEN [threw |-> TRUE, assigned |-> <<>>, built |-> built.policies]
    ELSE [threw |-> FALSE,
          assigned |-> <<ToolPermissions(built.policies, alloc)>>,
          built |-> built.policies]

ReloadConfig(yamlConfig, alloc) ==
  IF yamlConfig # <<>>
    THEN ReloadBuilt(yamlConfigToPolicies(yamlConfig[1]), alloc)
    ELSE [threw |-> FALSE, assigned |-> <<Null>>, built |-> <<>>]

ReloadTry(f, alloc) == ReloadConfig(loadPermissionsYaml(f), alloc)

\* A reload() that pushes the new policies onto the array already published.
reloadInPlace(f, current, alloc) ==
  LET try == ReloadTry(f, alloc) IN
  IF try.threw \/ try.assigned[1].isNull THEN [permissions |-> Null, threw |-> FALSE]
  ELSE IF current.isNull THEN [permissions |-> try.assigned[1], threw |-> FALSE]
  ELSE [permissions |-> [isNull |-> FALSE,
                         policies |-> current.policies \o try.assigned[1].policies,
                         alloc |-> current.alloc \o try.assigned[1].alloc],
        threw |-> FALSE]

\* A reload() that publishes what was built before parseToolPattern threw.
reloadPartial(f, current, alloc) ==
  LET try == ReloadTry(f, alloc) IN
  IF try.threw
    THEN [permissions |-> ToolPermissions(try.built, alloc), threw |-> FALSE]
    ELSE [permissions |-> try.assigned[1], threw |-> FALSE]

\* A reload() that keeps the current policies when it cannot load new ones.
reloadKeepsPrevious(f, current, alloc) ==
  LET try == ReloadTry(f, alloc) IN
  IF try.threw \/ try.assigned[1].isNull
    THEN [permissions |-> current, threw |-> FALSE]
    ELSE [permissions |-> try.assigned[1], threw |-> FALSE]

\* A reload() that publishes only the policies that were not loaded already.
reloadOnlyNew(f, current, alloc) ==
  LET try == ReloadTry(f, alloc) IN
  IF try.threw THEN [permissions |-> Null, threw |-> FALSE]
  ELSE IF try.assigned[1].isNull \/ current.isNull
    THEN [permissions |-> try.assigned[1], threw |-> FALSE]
  ELSE [permissions |->
          ToolPermissions(SelectSeq(try.assigned[1].policies,
                                    LAMBDA policy :
                                      \A i \in DOMAIN current.policies :
                                        current.policies[i] # policy),
                          alloc),
        threw |-> FALSE]

\* A reload() that leaves a null store null.
reloadStaysNull(f, current, alloc) ==
  IF current.isNull /\ alloc > 1
    THEN [permissions |-> Null, threw |-> FALSE]
    ELSE [permissions |-> IF ReloadTry(f, alloc).threw THEN Null
                          ELSE ReloadTry(f, alloc).assigned[1],
          threw |-> FALSE]

\* reload(): this.permissions afterwards, and whether an exception leaves it.
ReloadCatch(try) ==
  IF try.threw
    THEN [permissions |-> Null, threw |-> FALSE]
    ELSE [permissions |-> try.assigned[1], threw |-> FALSE]

reload(f, current, alloc) == ReloadCatch(ReloadTry(f, alloc))

\* watchHandle.close(): the watcher stops and delivers nothing more.
Close(hs, h) == [hs EXCEPT ![h] = [open |-> FALSE, closes |-> @.closes + 1]]

DropEvents(evs, h) == SelectSeq(evs, LAMBDA e : e.handle # h)

\* The notifications a change of the file queues: one per open watcher.
RECURSIVE Notify(_, _, _, _)
Notify(evs, hs, h, eventType) ==
  IF h > Len(hs) THEN evs
  ELSE Notify(IF hs[h].open THEN Append(evs, [handle |-> h, eventType |-> eventType])
              ELSE evs,
              hs, h + 1, eventType)

\* A setupFileWatcher() that does not close the watcher it replaces.
setupFileWatcherNoClose(f, hs, handle, evs, watched) ==
  IF Exists(f) /\ watched
    THEN [handles |-> Append(hs, [open |-> TRUE, closes |-> 0]),
          watchHandle |-> Len(hs) + 1,
          events |-> evs]
    ELSE [handles |-> hs, watchHandle |-> handle, events |-> evs]

\* setupFileWatcher() with the file being f; fs.watch throws when the file is
\* not there, and when watched is FALSE (no watcher can be had).
setupFileWatcher(f, hs, handle, evs, watched) ==
  LET closedHs == IF handle # 0 THEN Close(hs, handle) ELSE hs
      closedEvs == IF handle # 0 THEN DropEvents(evs, handle) ELSE evs
  IN IF Exists(f) /\ watched
       THEN [handles |-> Append(closedHs, [open |-> TRUE, closes |-> 0]),
             watchHandle |-> Len(closedHs) + 1,
             events |-> closedEvs]
       ELSE [handles |-> closedHs, watchHandle |-> handle, events |-> closedEvs]

\* A catch block that leaves this.enabled as it was.
InitializeCatchKeeps(wasEnabled) == wasEnabled

\* catch (error) { ...; this.enabled = false; } of initialize()
InitializeCatch(wasEnabled) == FALSE

\* An isEnabled() that looks at this.enabled only.
isEnabledFlagOnly == enabled

isEnabled == enabled /\ ~permissions.isNull

\* A checkPermission that looks at this.permissions only.
checkPermissionIgnoresEnabled(tool, toolArguments, processedArgs) ==
  IF permissions.isNull
    THEN [permission |-> "allow", matchedPolicy |-> <<>>]
    ELSE checkToolPermission(tool.name, toolArguments, permissions.policies,
                             processedArgs, <<tool>>)

checkPermission(tool, toolArguments, processedArgs) ==
  IF ~enabled \/ permissions.isNull
    THEN [permission |-> "allow", matchedPolicy |-> <<>>]
    ELSE checkToolPermission(tool.name, toolArguments, permissions.policies,
                             processedArgs, <<tool>>)

\* checkPermission throws: only checkToolPermission can.
checkPermissionThrows(tool, toolArguments) ==
  /\ enabled
  /\ ~permissions.isNull
  /\ checkToolPermissionThrows(tool.name, toolArguments, permissions.policies)

-----------------------------------------------------------------------------
(* The service and its environment as a state machine *)

\* How many times initialize() is called, and how many times the file is
\* changed from outside.
MaxInitializeCalls == 2
MaxFileChanges == 2

s_unbalanced == <<"r","e","a","d","_","f","i","l","e","(","/","e","t","c">>

E2EFile ==
  ObjectFile([exclude |-> ListValue(<<WithArgs(s_run_terminal_command, s_sudo_glob)>>),
              ask |-> ListValue(<<s_run_terminal_command>>),
              allow |-> ListValue(<<s_star>>)])

\* A pattern in the middle of the lists does not parse.
BadPatternFile ==
  ObjectFile([exclude |-> ListValue(<<WithArgs(s_run_terminal_command, s_sudo_glob),
                                      s_unbalanced>>),
              ask |-> ListValue(<<s_run_terminal_command>>)])

InvalidKeyFile ==
  ObjectFile([exclude |-> ListValue(<<s_run_terminal_command>>),
              deny |-> ListValue(<<s_read_file>>)])

\* allow: read_file
TruthyValueFile ==
  ObjectFile([exclude |-> ListValue(<<s_run_terminal_command>>),
              allow |-> TruthyValue])

\* allow: false
FalsyValueFile ==
  ObjectFile([exclude |-> ListValue(<<s_run_terminal_command>>),
              allow |-> FalsyValue])

s_etc_class == <<"/","e","t","c","/","[","+","*">>
s_read_paren == <<"r","e","a","d","_",")","?">>

\* Patterns with the metacharacters of regular expressions.
MetacharacterFile ==
  ObjectFile([exclude |-> ListValue(<<s_read_paren>>),
              ask |-> ListValue(<<WithArgs(s_read_file, s_etc_class)>>)])

FileContents ==
  {DefaultFile, E2EFile, BadPatternFile, UnparsableFile, ScalarFile,
   InvalidKeyFile, TruthyValueFile, FalsyValueFile, MetacharacterFile}

Files == {NoDirectory, MissingFile} \cup FileContents

ServiceCalls ==
  { [tool |-> Tool(s_run_terminal_command, <<"disabled">>),
     toolArguments |-> CommandArguments(s_sudo_rm)],
    [tool |-> Tool(s_run_terminal_command, <<"base">>),
     toolArguments |-> CommandArguments(s_git_status)],
    [tool |-> Tool(s_run_terminal_command, <<>>),
     toolArguments |-> CommandArguments(s_sudo_rm)],
    [tool |-> Tool(s_read_file, <<>>), toolArguments |-> NoArguments] }

NoRead == [kind |-> "none", doc |-> NoDoc]

Last(op, read, replaced, check) ==
  [op |-> op, read |-> read, prev |-> replaced, check |-> check]

NoHistory ==
  [read |-> NoRead, unchanged |-> FALSE, initialized |-> "none", completedOk |-> FALSE]

NoObservation == [evaluations |-> <<>>, threw |-> FALSE]

NoCall == [toolName |-> <<>>, toolArguments |-> NoArguments, policies |-> <<>>,
           tool |-> <<>>]

Init ==
  /\ file \in Files
  /\ permissions = Null
  /\ enabled = FALSE
  /\ watchHandle = 0
  /\ handles = <<>>
  /\ events = <<>>
  /\ inits = [mkdir |-> 0, write |-> 0, resolved |-> 0]
  /\ escaped = FALSE
  /\ counts = [initialize |-> 0, changes |-> 0, reloads |-> 0]
  /\ last = Last("none", NoRead, Null, <<>>)
  /\ disposed = FALSE
  /\ history = NoHistory
  /\ observed = NoObservation
  /\ call = NoCall
  /\ result = <<>>

\* initialize() up to its await: ensurePermissionsYamlExists() runs until it
\* waits for mkdir or for writeFile, or returns because the file is there.
InitializeCall ==
  /\ counts.initialize < MaxInitializeCalls
  /\ LET waitsFor == IF file.kind = "nodir" THEN "mkdir"
                     ELSE IF file.kind = "missing" THEN "write"
                     ELSE "resolved"
     IN inits' = [inits EXCEPT ![waitsFor] = @ + 1]
  /\ counts' = [counts EXCEPT !.initialize = @ + 1]
  /\ last' = Last("initializeCall", NoRead, Null, <<>>)
  /\ disposed' = FALSE
  /\ UNCHANGED <<file, permissions, enabled, watchHandle, handles, events, escaped,
                 history>>
  /\ UNCHANGED harnessVars

\* ensurePermissionsYamlExists() rejected: the catch block of initialize().
InitializeFailed(waitedFor) ==
  /\ enabled' = InitializeCatch(enabled)
  /\ inits' = [inits EXCEPT ![waitedFor] = @ - 1]
  /\ last' = Last("initializeFailed", NoRead, Null, <<>>)
  /\ history' = [history EXCEPT !.initialized = "failed"]
  /\ UNCHANGED <<file, permissions, watchHandle, handles, events, escaped, counts,
                 disposed>>

\* initialize() after its await, the file being f and the queue evs:
\* this.reload(); this.setupFileWatcher(); this.enabled = true.
InitializeWatched(waitedFor, f, loaded, watch) ==
  /\ file' = f
  /\ permissions' = loaded.permissions
  /\ handles' = watch.handles
  /\ watchHandle' = watch.watchHandle
  /\ events' = watch.events
  /\ enabled' = IF loaded.threw THEN InitializeCatch(enabled) ELSE TRUE
  /\ inits' = [inits EXCEPT ![waitedFor] = @ - 1]
  /\ counts' = [counts EXCEPT !.reloads = @ + 1]
  /\ last' = Last("initialize", f, permissions, <<>>)
  /\ history' = [read |-> f, unchanged |-> (f = history.read),
                  initialized |-> IF loaded.threw THEN "failed" ELSE "ok",
                  completedOk |-> (history.completedOk \/ ~loaded.threw)]
  /\ UNCHANGED <<escaped, disposed>>

\* An initialize() in which a failure of fs.watch reaches the catch block.
InitializeLoadedWatchThrows(waitedFor, f, evs, watched, loaded) ==
  InitializeWatched(
    waitedFor, f,
    IF Exists(f) /\ watched THEN loaded ELSE [loaded EXCEPT !.threw = TRUE],
    IF loaded.threw
      THEN [handles |-> handles, watchHandle |-> watchHandle, events |-> evs]
      ELSE setupFileWatcher(f, handles, watchHandle, evs, watched))

InitializeLoaded(waitedFor, f, evs, watched, loaded) ==
  InitializeWatched(
    waitedFor, f, loaded,
    IF loaded.threw
      THEN [handles |-> handles, watchHandle |-> watchHandle, events |-> evs]
      ELSE setupFileWatcher(f, handles, watchHandle, evs, watched))

InitializeContinue(waitedFor, f, evs, watched) ==
  InitializeLoaded(waitedFor, f, evs, watched,
                   reload(f, permissions, counts.reloads + 1))

\* fs.promises.mkdir settles.  When it resolves, ensurePermissionsYamlExists
\* goes on to the file: absent, it waits for writeFile; present, it returns
\* and initialize() continues.
MkdirDone(ok, watched) ==
  /\ inits.mkdir > 0
  /\ inits.resolved = 0
  /\ IF ~ok THEN InitializeFailed("mkdir")
     ELSE LET f == IF file.kind = "nodir" THEN MissingFile ELSE file IN
          IF Exists(f) THEN InitializeContinue("mkdir", f, events, watched)
          ELSE /\ file' = f
               /\ inits' = [inits EXCEPT !.mkdir = @ - 1, !.write = @ + 1]
               /\ last' = Last("mkdir", NoRead, Null, <<>>)
               /\ UNCHANGED <<permissions, enabled, watchHandle, handles, events,
                              escaped, counts, disposed, history>>
  /\ UNCHANGED harnessVars

\* An initialize() that loads before the default file is written.
WriteDoneLoadsFirst(ok, watched) ==
  /\ inits.write > 0
  /\ inits.resolved = 0
  /\ IF ~ok THEN InitializeFailed("write")
     ELSE InitializeLoaded("write", DefaultFile,
                           Notify(events, handles, 1, "change"), watched,
                           reload(file, permissions, counts.reloads + 1))
  /\ UNCHANGED harnessVars

\* fs.promises.writeFile settles: resolved, the file holds the default
\* content, whatever it held before, and initialize() continues.
WriteDone(ok, watched) ==
  /\ inits.write > 0
  /\ inits.resolved = 0
  /\ IF ~ok THEN InitializeFailed("write")
     ELSE InitializeContinue("write", DefaultFile,
                             Notify(events, handles, 1, "change"), watched)
  /\ UNCHANGED harnessVars

\* initialize() resumes after an await that had nothing to wait for.
InitializeResume(watched) ==
  /\ inits.resolved > 0
  /\ InitializeContinue("resolved", file, events, watched)
  /\ UNCHANGED harnessVars

\* A callback that answers all the queued notifications with one reload.
WatchCallbackCoalesces ==
  /\ events # <<>>
  /\ inits.resolved = 0
  /\ events' = <<>>
  /\ LET loaded == reload(file, permissions, counts.reloads + 1)
     IN /\ permissions' = loaded.permissions
        /\ escaped' = (escaped \/ loaded.threw)
        /\ counts' = [counts EXCEPT !.reloads = @ + 1]
        /\ last' = Last("watchReload", file, permissions, <<>>)
        /\ history' = [history EXCEPT !.read = file,
                                      !.unchanged = (file = history.read)]
  /\ UNCHANGED <<file, enabled, watchHandle, handles, inits, disposed>>
  /\ UNCHANGED harnessVars

\* The callback given to fs.watch, called with the oldest notification.
WatchCallback ==
  /\ events # <<>>
  /\ inits.resolved = 0
  /\ events' = Tail(events)
  /\ IF Head(events).eventType = "change"
       THEN LET loaded == reload(file, permissions, counts.reloads + 1)
            IN /\ permissions' = loaded.permissions
               /\ escaped' = (escaped \/ loaded.threw)
               /\ counts' = [counts EXCEPT !.reloads = @ + 1]
               /\ last' = Last("watchReload", file, permissions, <<>>)
               /\ history' = [history EXCEPT !.read = file,
                                             !.unchanged = (file = history.read)]
       ELSE /\ last' = Last("watchIgnored", NoRead, Null, <<>>)
            /\ UNCHANGED <<permissions, escaped, counts, history>>
  /\ UNCHANGED <<file, enabled, watchHandle, handles, inits, disposed>>
  /\ UNCHANGED harnessVars

\* checkPermission(tool, toolArguments): last.check keeps the call, what it
\* returned and the ToolPermissions it handed to checkToolPermission.
CheckPermission(c) ==
  /\ last' = Last("check", NoRead, Null,
                  <<[tool |-> c.tool, toolArguments |-> c.toolArguments,
                     threw |-> checkPermissionThrows(c.tool, c.toolArguments),
                     result |-> checkPermission(c.tool, c.toolArguments, <<>>),
                     evaluated |-> IF ~enabled \/ permissions.isNull
                                     THEN Null ELSE permissions]>>)
  /\ UNCHANGED <<file, permissions, enabled, watchHandle, handles, events, inits,
                 escaped, counts, disposed, history>>
  /\ UNCHANGED harnessVars

\* A dispose() that forgets the watcher without closing it.
DisposeKeepsOpen ==
  /\ watchHandle' = 0
  /\ last' = Last("dispose", NoRead, Null, <<>>)
  /\ disposed' = TRUE
  /\ UNCHANGED <<file, permissions, enabled, handles, events, inits, escaped,
                 counts, history>>
  /\ UNCHANGED harnessVars

\* A dispose() that also drops the store and the flag.
DisposeClearsStore ==
  /\ IF watchHandle # 0
       THEN /\ handles' = Close(handles, watchHandle)
            /\ events' = DropEvents(events, watchHandle)
            /\ watchHandle' = 0
       ELSE UNCHANGED <<handles, events, watchHandle>>
  /\ permissions' = Null
  /\ enabled' = FALSE
  /\ last' = Last("dispose", NoRead, Null, <<>>)
  /\ disposed' = TRUE
  /\ UNCHANGED <<file, inits, escaped, counts, history>>
  /\ UNCHANGED harnessVars

Dispose ==
  /\ IF watchHandle # 0
       THEN /\ handles' = Close(handles, watchHandle)
            /\ events' = DropEvents(events, watchHandle)
            /\ watchHandle' = 0
       ELSE UNCHANGED <<handles, events, watchHandle>>
  /\ last' = Last("dispose", NoRead, Null, <<>>)
  /\ disposed' = TRUE
  /\ UNCHANGED <<file, permissions, enabled, inits, escaped, counts, history>>
  /\ UNCHANGED harnessVars

\* Somebody writes the file (creating the directory if need be).
ExternalWrite(content) ==
  /\ counts.changes < MaxFileChanges
  /\ file' = content
  /\ events' = Notify(events, handles, 1, "change")
  /\ counts' = [counts EXCEPT !.changes = @ + 1]
  /\ UNCHANGED <<permissions, enabled, watchHandle, handles, inits, escaped, last,
                 disposed, history>>
  /\ UNCHANGED harnessVars

\* Somebody deletes the file.
ExternalDelete ==
  /\ counts.changes < MaxFileChanges
  /\ Exists(file)
  /\ file' = MissingFile
  /\ events' = Notify(events, handles, 1, "rename")
  /\ counts' = [counts EXCEPT !.changes = @ + 1]
  /\ UNCHANGED <<permissions, enabled, watchHandle, handles, inits, escaped, last,
                 disposed, history>>
  /\ UNCHANGED harnessVars

Next ==
  \/ InitializeCall
  \/ \E ok \in BOOLEAN, watched \in BOOLEAN : MkdirDone(ok, watched)
  \/ \E ok \in BOOLEAN, watched \in BOOLEAN : WriteDone(ok, watched)
  \/ \E watched \in BOOLEAN : InitializeResume(watched)
  \/ WatchCallback
  \/ \E c \in ServiceCalls : CheckPermission(c)
  \/ Dispose
  \/ \E content \in FileContents : ExternalWrite(content)
  \/ ExternalDelete

Spec == Init /\ [][Next]_vars

-----------------------------------------------------------------------------
(* The evaluator harness: checkToolPermission applied to drawn inputs *)

EvaluatorInit ==
  /\ \E n \in ToolNames, a \in ArgumentSets, ps \in PolicyLists, pa \in ProcessedArgs :
       \E t \in ToolsNamed(n) :
         call = [toolName |-> n, toolArguments |-> a, policies |-> ps,
                 processedArgs |-> pa, tool |-> t]
  /\ result = <<>>
  /\ file = MissingFile
  /\ permissions = Null
  /\ enabled = FALSE
  /\ watchHandle = 0
  /\ handles = <<>>
  /\ events = <<>>
  /\ inits = [mkdir |-> 0, write |-> 0, resolved |-> 0]
  /\ escaped = FALSE
  /\ counts = [initialize |-> 0, changes |-> 0, reloads |-> 0]
  /\ last = Last("none", NoRead, Null, <<>>)
  /\ disposed = FALSE
  /\ history = NoHistory
  /\ observed = NoObservation

\* checkToolPermission(toolName, toolArguments, permissions, processedArgs,
\* tool): what it returns, and what it was seen to do on the way.
Evaluate ==
  /\ result = <<>>
  /\ ~observed.threw
  /\ LET threw == checkToolPermissionThrows(call.toolName, call.toolArguments,
                                            call.policies)
     IN /\ result' = IF threw THEN <<>>
                     ELSE <<checkToolPermission(call.toolName, call.toolArguments,
                                                call.policies, call.processedArgs,
                                                call.tool)>>
        /\ observed' = [evaluations |->
                          IF threw THEN <<>>
                          ELSE DynamicEvaluations(call.toolName, call.toolArguments,
                                                  call.policies, call.processedArgs,
                                                  call.tool),
                        threw |-> threw]
  /\ UNCHANGED call
  /\ UNCHANGED serviceVars

EvaluatorNext == Evaluate

EvaluatorSpec == EvaluatorInit /\ [][EvaluatorNext]_vars

-----------------------------------------------------------------------------
(* The filter harness: filterExcludedTools applied to drawn tool lists *)

\* The longest tool list and the longest policy list the harness draws.
MaxTools == 3
MaxFilterPolicies == 2

s_grep_search == <<"g","r","e","p","_","s","e","a","r","c","h">>
s_tmp_any == <<"/","t","m","p","/","*">>

\* The tools of the tests of filterExcludedTools: with and without a dynamic
\* evaluation, two of them with the same name.
FilterTools ==
  { Tool(s_read_file, <<>>),
    Tool(s_grep_search, <<>>),
    Tool(s_run_terminal_command, <<>>),
    Tool(s_run_terminal_command, <<"disabled">>),
    Tool(s_read_file, <<"allowedWithoutPermission">>) }

\* The policies of those tests, and exclude policies as parseToolPattern makes
\* them of name(args): with a glob, with "*" and with a plain string.
FilterPolicies ==
  { Policy(s_grep_search, "exclude"),
    Policy(s_star, "allow"),
    Policy(s_run_terminal_command, "ask"),
    PolicyWithArgs(s_run_terminal_command, "exclude", "command", s_sudo_glob),
    PolicyWithArgs(s_run_terminal_command, "exclude", "command", s_star),
    PolicyWithArgs(s_read_file, "exclude", "file_path", s_tmp_any) }

ToolLists == UNION {[1..n -> FilterTools] : n \in 0..MaxTools}

FilterPolicyLists == UNION {[1..n -> FilterPolicies] : n \in 0..MaxFilterPolicies}

FilterInit ==
  /\ \E tools \in ToolLists, policies \in FilterPolicyLists :
       call = [tools |-> tools, policies |-> policies]
  /\ result = <<>>
  /\ file = MissingFile
  /\ permissions = Null
  /\ enabled = FALSE
  /\ watchHandle = 0
  /\ handles = <<>>
  /\ events = <<>>
  /\ inits = [mkdir |-> 0, write |-> 0, resolved |-> 0]
  /\ escaped = FALSE
  /\ counts = [initialize |-> 0, changes |-> 0, reloads |-> 0]
  /\ last = Last("none", NoRead, Null, <<>>)
  /\ disposed = FALSE
  /\ history = NoHistory
  /\ observed = NoObservation

\* filterExcludedTools(tools, permissions): what it returns, and the tools
\* array as the call leaves it (filter makes a new array).
FilterExcludedTools ==
  /\ result = <<>>
  /\ result' = <<[filtered |-> filterExcludedTools(call.tools, call.policies),
                  tools |-> call.tools]>>
  /\ UNCHANGED <<call, observed>>
  /\ UNCHANGED serviceVars

FilterNext == FilterExcludedTools

FilterSpec == FilterInit /\ [][FilterNext]_vars

-----------------------------------------------------------------------------
(* The matcher harness: matchesToolPattern and matchesArguments applied to
   drawn inputs *)

s_mcp_server1 == <<"m","c","p","_","_","s","e","r","v","e","r","1">>
s_mcp_glob == <<"m","c","p","_","_","*">>
s_read_q_file == <<"r","e","a","d","?","f","i","l","e">>
s_read_dot_glob == <<"r","e","a","d",".","*">>
s_read_nl_file == <<"r","e","a","d","_","\n","f","i","l","e">>
s_ls_glob == <<"l","s","*">>
s_l_q == <<"l","?">>
s_ls_la == <<"l","s"," ","-","l","a">>
s_sudo_nl == <<"s","u","d","o"," ","r","m"," ","-","r","f"," ","/","\n","l","s">>
s_tmp_file == <<"/","t","m","p","/","f","i","l","e",".","t","x","t">>
s_txt_glob == <<"*",".","t","x","t">>

\* The tool names of the tests of matchesToolPattern, the legacy name of the
\* terminal tool, a name with a line break in it, and names that are
\* themselves of the form name(args).
MatcherToolNames ==
  { s_read_file, s_run_terminal_command, s_runTerminalCommand, s_mcp_server1,
    s_read_nl_file, WithArgs(s_run_terminal_command, s_ls_glob),
    WithArgs(s_read_file, s_ls) }

\* The patterns of those tests, globs with ? and with a regex metacharacter,
\* and patterns of the terminal-command shape.
ToolPatterns ==
  { s_star, s_read_file, s_run_terminal_command, s_read_glob, s_mcp_glob,
    s_read_q_file, s_read_dot_glob,
    WithArgs(s_run_terminal_command, s_ls_glob),
    WithArgs(s_run_terminal_command, s_ls),
    WithArgs(s_run_terminal_command, s_star),
    WithArgs(s_run_terminal_command, s_l_q),
    WithArgs(s_runTerminalCommand, s_sudo_glob),
    WithArgs(s_read_file, s_ls) }

Commands == {s_ls, s_ls_la, s_empty, s_git_status, s_sudo_rm, s_sudo_nl}

\* Arguments with a command, a path, both or neither.
MatcherArguments ==
  UNION { {NoArguments},
          {CommandArguments(c) : c \in Commands},
          {[k \in {"path"} |-> v] : v \in {s_tmp_file, s_empty}},
          {[k \in {"command", "path"} |-> IF k = "command" THEN c ELSE s_tmp_file] :
             c \in {s_git_status, s_ls}} }

\* The optional argumentMatches of the tests of matchesArguments, with one
\* key, two keys and none.
ArgumentPatterns ==
  {<<>>, <<NoArguments>>} \cup
  {<<[k \in {"command"} |-> v]>> : v \in {s_star, s_git_glob, s_ls, s_l_q, s_sudo_glob, s_empty}} \cup
  {<<[k \in {"path"} |-> v]>> : v \in {s_star, s_txt_glob, s_tmp_file}} \cup
  {<<[k \in {"command", "path"} |-> IF k = "command" THEN c ELSE v]>> :
     c \in {s_star, s_git_glob, s_ls}, v \in {s_star, s_txt_glob, s_read_file}}

MatcherCall(fn, toolName, pattern, toolArguments, patterns) ==
  [fn |-> fn, toolName |-> toolName, pattern |-> pattern,
   toolArguments |-> toolArguments, patterns |-> patterns]

MatcherInit ==
  /\ \/ \E toolName \in MatcherToolNames, pattern \in ToolPatterns,
           toolArguments \in MatcherArguments :
          call = MatcherCall("matchesToolPattern", toolName, pattern, toolArguments, <<>>)
     \/ \E toolArguments \in MatcherArguments, patterns \in ArgumentPatterns :
          call = MatcherCall("matchesArguments", <<>>, <<>>, toolArguments, patterns)
  /\ result = <<>>
  /\ file = MissingFile
  /\ permissions = Null
  /\ enabled = FALSE
  /\ watchHandle = 0
  /\ handles = <<>>
  /\ events = <<>>
  /\ inits = [mkdir |-> 0, write |-> 0, resolved |-> 0]
  /\ escaped = FALSE
  /\ counts = [initialize |-> 0, changes |-> 0, reloads |-> 0]
  /\ last = Last("none", NoRead, Null, <<>>)
  /\ disposed = FALSE
  /\ history = NoHistory
  /\ observed = NoObservation

MatchesToolPattern ==
  /\ result = <<>>
  /\ call.fn = "matchesToolPattern"
  /\ result' = <<matchesToolPattern(call.toolName, call.pattern, call.toolArguments)>>
  /\ UNCHANGED <<call, observed>>
  /\ UNCHANGED serviceVars

MatchesArguments ==
  /\ result = <<>>
  /\ call.fn = "matchesArguments"
  /\ result' = <<matchesArguments(call.toolArguments, call.patterns)>>
  /\ UNCHANGED <<call, observed>>
  /\ UNCHANGED serviceVars

MatcherNext == MatchesToolPattern \/ MatchesArguments

MatcherSpec == MatcherInit /\ [][MatcherNext]_vars

-----------------------------------------------------------------------------
(* The loader harness: parseToolPattern and yamlConfigToPolicies applied to
   drawn inputs *)

\* The longest list of a drawn config.
MaxListLen == 2

s_my_tool == <<"m","y","_","t","o","o","l">>
s_tmp_glob == <<"/","t","m","p","/","*">>
s_x == <<"x">>
s_blanks == <<" ", " ">>
\* " read_file ( /tmp/* ) "
s_padded == <<" ">> \o s_read_file \o <<" ", "(", " ">> \o s_tmp_glob \o <<" ", ")">>
\* "my_tool)", "my_tool((x)", "my_tool(x))", "invalid((pattern", "(x)"
s_close_only == s_my_tool \o <<")">>
s_nested == s_my_tool \o <<"(", "(", "x", ")">>
s_extra_close == s_my_tool \o <<"(", "x", ")", ")">>
s_invalid == <<"i","n","v","a","l","i","d","(","(","p","a","t","t","e","r","n">>
s_no_name == <<"(", "x", ")">>

\* The pattern strings of the tests of parseToolPattern and of the default
\* file's examples, names outside the table, and strings that are not of the
\* form name or name(args).
PatternStrings ==
  { s_run_terminal_command,
    WithArgs(s_run_terminal_command, s_git_glob),
    WithArgs(s_runTerminalCommand, s_git_glob),
    WithArgs(s_read_file, s_tmp_glob),
    WithArgs(s_run_terminal_command, <<>>),
    WithArgs(s_run_terminal_command, s_blanks),
    s_padded,
    WithArgs(s_my_tool, s_x),
    WithArgs(s_constructor, s_x),
    WithArgs(s_toString, s_x),
    WithArgs(s___proto__, s_x),
    s_unbalanced, s_close_only, s_nested, s_extra_close, s_invalid, s_no_name,
    s_empty }

\* The patterns the lists of the drawn configs are made of.
ListPatterns ==
  {s_read_file, WithArgs(s_run_terminal_command, s_git_glob), s_nested, s_unbalanced}

\* The values of a key of a drawn config: absent (undefined), null, a list.
ListValues ==
  {FalsyValue} \cup
  {ListValue(items) : items \in UNION {[1..n -> ListPatterns] : n \in 0..MaxListLen}}

Configs ==
  UNION {[keys -> ListValues] : keys \in SUBSET validKeys}

LoaderCall(fn, pattern, permission, config) ==
  [fn |-> fn, pattern |-> pattern, permission |-> permission, config |-> config]

LoaderInit ==
  /\ \/ \E pattern \in PatternStrings, permission \in PermissionPolicies :
          call = LoaderCall("parseToolPattern", pattern, permission, NoDoc)
     \/ \E config \in Configs :
          call = LoaderCall("yamlConfigToPolicies", <<>>, "allow", config)
  /\ result = <<>>
  /\ file = MissingFile
  /\ permissions = Null
  /\ enabled = FALSE
  /\ watchHandle = 0
  /\ handles = <<>>
  /\ events = <<>>
  /\ inits = [mkdir |-> 0, write |-> 0, resolved |-> 0]
  /\ escaped = FALSE
  /\ counts = [initialize |-> 0, changes |-> 0, reloads |-> 0]
  /\ last = Last("none", NoRead, Null, <<>>)
  /\ disposed = FALSE
  /\ history = NoHistory
  /\ observed = NoObservation

ParseToolPattern ==
  /\ result = <<>>
  /\ call.fn = "parseToolPattern"
  /\ result' = <<parseToolPattern(call.pattern, call.permission)>>
  /\ UNCHANGED <<call, observed>>
  /\ UNCHANGED serviceVars

YamlConfigToPolicies ==
  /\ result = <<>>
  /\ call.fn = "yamlConfigToPolicies"
  /\ result' = <<yamlConfigToPolicies(call.config)>>
  /\ UNCHANGED <<call, observed>>
  /\ UNCHANGED serviceVars

LoaderNext == ParseToolPattern \/ YamlConfigToPolicies

LoaderSpec == LoaderInit /\ [][LoaderNext]_vars

-----------------------------------------------------------------------------
(* Properties of checkToolPermission, checked under EvaluatorSpec *)

Rank(permission) ==
  CASE permission = "allow" -> 0
    [] permission = "ask" -> 1
    [] permission = "exclude" -> 2

Max(a, b) == IF a >= b THEN a ELSE b

\* The indices of the policies of the call that match its name and arguments.
Matching ==
  {i \in 1..Len(call.policies) :
     /\ matchesToolPattern(call.toolName, call.policies[i].tool, call.toolArguments)
     /\ matchesArguments(call.toolArguments, call.policies[i].argumentMatches)}

StaticBase == StaticScan(call.toolName, call.toolArguments, call.policies).basePermission

\* What the tool of the call answers when handed the static base, translated.
DynamicPermission ==
  toolPolicyToPermissionPolicy(
    evaluateToolCallPolicy(call.tool[1].evaluateToolCallPolicy[1],
                           permissionPolicyToToolPolicy(StaticBase),
                           call.toolArguments, <<>>))

\* C1: with a tool that has a dynamic evaluation, checkToolPermission returns
\* the more restrictive of the static base and the translated dynamic
\* decision under exclude > ask > allow: never less restrictive than the
\* static base, and exclude for a static allow with a dynamic disabled.
C1_MoreRestrictiveOfStaticAndDynamic ==
  (result # <<>> /\ HasDynamicPolicy(call.tool)) =>
    /\ Rank(result[1].permission) = Max(Rank(StaticBase), Rank(DynamicPermission))
    /\ Rank(result[1].permission) >= Rank(StaticBase)
    /\ (StaticBase = "allow" /\ call.tool[1].evaluateToolCallPolicy = <<"disabled">>)
         => result[1].permission = "exclude"

\* A static ask met by a dynamic allowedWithoutPermission stays ask.
C1_Witness ==
  /\ result # <<>>
  /\ HasDynamicPolicy(call.tool)
  /\ call.tool[1].evaluateToolCallPolicy = <<"allowedWithoutPermission">>
  /\ StaticBase = "ask"
  /\ result[1].permission = "ask"

\* C2: first match wins: the static base is the decision of the lowest-index
\* policy whose tool pattern and argument patterns match the call, and
\* matchedPolicy is that policy; the policies after it do not influence the
\* result.
C2_FirstMatchWins ==
  (result # <<>> /\ Matching # {}) =>
    LET first == CHOOSE i \in Matching : \A j \in Matching : i <= j IN
    /\ StaticBase = call.policies[first].permission
    /\ result[1].matchedPolicy = <<call.policies[first]>>
    /\ ~HasDynamicPolicy(call.tool) => result[1].permission = call.policies[first].permission
    /\ result[1] = checkToolPermission(call.toolName, call.toolArguments,
                                       SubSeq(call.policies, 1, first), <<>>, call.tool)

\* Two policies with different decisions match, and the earlier one decided.
C2_Witness ==
  /\ result # <<>>
  /\ \E i \in Matching, j \in Matching :
       /\ i < j
       /\ \A k \in Matching : i <= k
       /\ call.policies[i].permission # call.policies[j].permission
       /\ result[1].matchedPolicy = <<call.policies[i]>>

\* C3: permissive default: when no policy matches (the list may be empty) and
\* no dynamic evaluation is supplied, checkToolPermission returns allow with
\* no matched policy.
C3_PermissiveDefault ==
  (result # <<>> /\ Matching = {} /\ ~HasDynamicPolicy(call.tool)) =>
    result[1] = [permission |-> "allow", matchedPolicy |-> <<>>]

\* A call that none of several policies matches is allowed.
C3_Witness ==
  /\ result # <<>>
  /\ Len(call.policies) >= 2
  /\ Matching = {}
  /\ ~HasDynamicPolicy(call.tool)
  /\ result[1].permission = "allow"

-----------------------------------------------------------------------------
(* Properties of ToolPermissionsService, checked under Spec *)

Allowed == [permission |-> "allow", matchedPolicy |-> <<>>]

ReloadSteps == {"initialize", "watchReload"}

\* What checkToolPermission makes of a service call under the policies ps.
Evaluated(c, ps) ==
  checkToolPermission(c.tool.name, c.toolArguments, ps.policies, <<>>, <<c.tool>>)

\* C4: whenever the service is disabled (no initialize() has completed, the
\* last initialize() failed, or the store is null), checkPermission returns
\* allow with no matched policy, for every tool and arguments.
C4_DisabledAllows ==
  /\ (counts.reloads = 0 \/ last.op = "initializeFailed" \/ permissions.isNull)
       => ~isEnabled
  /\ ~isEnabled =>
       /\ \A c \in ServiceCalls : checkPermission(c.tool, c.toolArguments, <<>>) = Allowed
       /\ last.op = "check" => last.check[1].result = Allowed

\* A failed initialize() disabled the service while policies that restrict
\* the call are still loaded, and the call was allowed.
C4_Witness ==
  /\ last.op = "check"
  /\ ~enabled
  /\ ~permissions.isNull
  /\ Evaluated(last.check[1], permissions).permission # "allow"
  /\ last.check[1].result = Allowed

\* What the tool of a service call answers, whatever base it is handed.
ClassifiedDisabled(c) ==
  /\ c.tool.evaluateToolCallPolicy # <<>>
  /\ \A base \in ToolPolicies :
       evaluateToolCallPolicy(c.tool.evaluateToolCallPolicy[1], base,
                              c.toolArguments, <<>>) = "disabled"

\* C5: critical commands are always blocked: whatever permissions.yaml holds,
\* once initialize() has completed, a call that the tool's dynamic evaluation
\* classifies as disabled gets exclude from checkPermission.
C5_CriticalAlwaysBlocked ==
  (last.op = "check" /\ enabled /\ ClassifiedDisabled(last.check[1])) =>
    last.check[1].result.permission = "exclude"

\* C6: snapshot consistency: the policies a checkPermission call evaluates
\* are the store as it is at the call, all of one reload(), and the complete
\* list that reload() made of some content of the file.
C6_SnapshotConsistency ==
  (last.op = "check" /\ ~last.check[1].evaluated.isNull) =>
    LET seen == last.check[1].evaluated IN
    /\ seen = permissions
    /\ \A i \in DOMAIN seen.alloc, j \in DOMAIN seen.alloc : seen.alloc[i] = seen.alloc[j]
    /\ \E f \in FileContents :
         LET config == loadPermissionsYaml(f) IN
         /\ config # <<>>
         /\ ~yamlConfigToPolicies(config[1]).threw
         /\ seen.policies = yamlConfigToPolicies(config[1]).policies

\* A call evaluated the policies of a second or later reload().
C6_Witness ==
  /\ last.op = "check"
  /\ ~last.check[1].evaluated.isNull
  /\ Len(last.check[1].evaluated.policies) >= 2
  /\ last.check[1].evaluated.alloc[1] >= 2

\* The number of patterns in the lists of a config.
ConfigSize(config) ==
  Len(ConfigList(config, "exclude")) + Len(ConfigList(config, "ask"))
    + Len(ConfigList(config, "allow"))

\* C7: reloads are all-or-nothing: after a reload() the store is null or the
\* complete list made of the content that reload() read, never a prefix of
\* it, also when a pattern in the middle of the lists does not parse.
C7_ReloadAllOrNothing ==
  (last.op \in ReloadSteps /\ ~permissions.isNull) =>
    LET config == loadPermissionsYaml(last.read) IN
    /\ config # <<>>
    /\ ~yamlConfigToPolicies(config[1]).threw
    /\ permissions.policies = yamlConfigToPolicies(config[1]).policies
    /\ Len(permissions.policies) = ConfigSize(config[1])

\* A reload() met a pattern that does not parse after one that does, and
\* replaced loaded policies by null.
C7_Witness ==
  /\ last.op = "watchReload"
  /\ last.read = BadPatternFile
  /\ ~last.prev.isNull
  /\ permissions.isNull

\* Some pattern of the lists of a mapping does not parse.
HasBadPattern(f) ==
  /\ f.kind = "object"
  /\ \E key \in DOMAIN f.doc : \E i \in 1..Len(f.doc[key].items) :
       parseToolPattern(f.doc[key].items[i], key).threw

\* The sources C8 calls invalid: missing, unparsable, a key other than
\* allow/ask/exclude, a value that is not a list, a pattern that does not parse.
ClaimedInvalid(f) ==
  \/ ~Exists(f)
  \/ f.kind \in {"unparsable", "scalar"}
  \/ /\ f.kind = "object"
     /\ \E key \in DOMAIN f.doc : key \notin validKeys \/ f.doc[key].type # "list"
  \/ HasBadPattern(f)

\* The same, a value that is not a list counting only when it is truthy.
Invalid(f) ==
  \/ ~Exists(f)
  \/ f.kind \in {"unparsable", "scalar"}
  \/ /\ f.kind = "object"
     /\ \E key \in DOMAIN f.doc : key \notin validKeys \/ f.doc[key].type = "truthy"
  \/ HasBadPattern(f)

Disables ==
  /\ permissions.isNull
  /\ ~isEnabled
  /\ \A c \in ServiceCalls : checkPermission(c.tool, c.toolArguments, <<>>) = Allowed
  /\ ~escaped

\* C8 as stated: a reload() that finds the source missing, unparsable,
\* structurally invalid (a key other than allow/ask/exclude, or a non-list
\* value) or with a pattern that does not parse leaves the store null,
\* isEnabled() false, every checkPermission answering allow, and no exception
\* with the caller.
C8_AsStated ==
  (last.op \in ReloadSteps /\ ClaimedInvalid(last.read)) => Disables

\* C8, amended: the same for a source that is missing, unparsable, has a key
\* other than allow/ask/exclude, has a truthy value that is not a list, or
\* has a pattern that does not parse.  (A falsy value - null, false, 0, "" -
\* passes validation and counts as an absent list.)
C8_ConfigErrorsDisable ==
  (last.op \in ReloadSteps /\ Invalid(last.read)) => Disables

\* A watcher reload found a truthy non-list value and dropped loaded policies.
C8_Witness ==
  /\ last.op = "watchReload"
  /\ last.read = TruthyValueFile
  /\ ~last.prev.isNull
  /\ permissions.isNull
  /\ ~isEnabled

\* The service calls that the policies ps restrict (ask or exclude).
Restricted(ps) ==
  {c \in ServiceCalls : ~ps.isNull /\ Evaluated(c, ps).permission # "allow"}

\* C9 as stated: when the read of a watcher-triggered reload fails, the store
\* keeps the previous policies, so the calls that were restricted before the
\* failed reload are restricted after it.
C9_AsStated ==
  (last.op = "watchReload" /\ last.read.kind = "unparsable" /\ enabled
     /\ Restricted(last.prev) # {}) =>
    /\ permissions = last.prev
    /\ \A c \in Restricted(last.prev) :
         checkPermission(c.tool, c.toolArguments, <<>>).permission # "allow"

\* C9, amended: when the read of a watcher-triggered reload fails, the store
\* becomes null: the previous policies are dropped and every call, restricted
\* before or not, is allowed.
C9_FailedReadDropsPolicies ==
  (last.op = "watchReload" /\ last.read.kind = "unparsable") =>
    /\ permissions.isNull
    /\ \A c \in ServiceCalls : checkPermission(c.tool, c.toolArguments, <<>>) = Allowed

\* A call that the previous policies restricted is allowed after the failed read.
C9_Witness ==
  /\ last.op = "watchReload"
  /\ last.read.kind = "unparsable"
  /\ enabled
  /\ ~last.prev.isNull
  /\ permissions.isNull
  /\ \E c \in Restricted(last.prev) :
       checkPermission(c.tool, c.toolArguments, <<>>) = Allowed

\* C10: initialize() never throws or rejects, and a failure that prevents
\* loading (ensurePermissionsYamlExists rejecting, or the initial load finding
\* nothing valid) leaves the service disabled.
C10_InitializeNeverThrows ==
  /\ ~escaped
  /\ last.op = "initializeFailed" =>
       /\ ~isEnabled
       /\ \A c \in ServiceCalls : checkPermission(c.tool, c.toolArguments, <<>>) = Allowed
  /\ (last.op = "initialize" /\ Invalid(last.read)) =>
       /\ ~isEnabled
       /\ \A c \in ServiceCalls : checkPermission(c.tool, c.toolArguments, <<>>) = Allowed

\* An initialize() whose writeFile or mkdir failed disabled a service that
\* still holds policies.
C10_Witness ==
  /\ last.op = "initializeFailed"
  /\ ~permissions.isNull
  /\ ~enabled

-----------------------------------------------------------------------------
(* Properties of the life cycle of the service, checked under Spec *)

\* The watchers that are open.
Live == {h \in 1..Len(handles) : handles[h].open}

\* The service holds a watcher that is open.
HoldsLiveWatch == watchHandle # 0 /\ handles[watchHandle].open

\* C11: initialize() is idempotent: with the source unchanged, a second or
\* later initialize(), after or overlapping an earlier one, leaves the service
\* as the earlier one left it: enabled, the same policies and so the same
\* decisions, and one live watch, the one the service holds, the earlier
\* watchers being closed.
C11_InitializeIdempotent ==
  (last.op = "initialize" /\ counts.reloads >= 2 /\ counts.changes = 0) =>
    /\ enabled
    /\ permissions.isNull = last.prev.isNull
    /\ permissions.policies = last.prev.policies
    /\ \A c \in ServiceCalls :
         checkPermission(c.tool, c.toolArguments, <<>>) =
           IF last.prev.isNull THEN Allowed ELSE Evaluated(c, last.prev)
    /\ Cardinality(Live) <= 1
    /\ HoldsLiveWatch => Live = {watchHandle}

\* A second initialize() replaced the watcher of the first and loaded the
\* same policies.
C11_Witness ==
  /\ last.op = "initialize"
  /\ counts.initialize = 2
  /\ counts.reloads = 2
  /\ counts.changes = 0
  /\ ~permissions.isNull
  /\ Len(permissions.policies) >= 2
  /\ permissions.policies = last.prev.policies
  /\ Len(handles) = 2
  /\ handles[1].closes = 1
  /\ Live = {2}
  /\ watchHandle = 2

\* C12: dispose() releases the watch idempotently: it may be called before
\* initialize() and any number of times, close() is called at most once on
\* each watcher, and after dispose() the service holds no watch handle.
C12_DisposeIdempotent ==
  /\ \A h \in 1..Len(handles) : handles[h].closes <= 1
  /\ last.op = "dispose" => (watchHandle = 0 /\ Live = {})

\* C13: disposed is terminal: after dispose(), and until initialize() is
\* called again, the service holds no live watch and no change notification
\* makes it reload, also when an initialize() called before the dispose() was
\* still waiting.
C13_DisposedIsTerminal ==
  disposed => (Live = {} /\ watchHandle = 0 /\ last.op # "watchReload")

-----------------------------------------------------------------------------
(* Properties of the loader, checked under LoaderSpec *)

Parsed == result # <<>> /\ call.fn = "parseToolPattern"
Converted == result # <<>> /\ call.fn = "yamlConfigToPolicies"

\* The policy made of the i-th pattern of the list of key.
PolicyOf(config, key, i) == parseToolPattern(ConfigList(config, key)[i], key).policy[1]

\* C14: normalization order: yamlConfigToPolicies returns the exclude rules,
\* then the ask rules, then the allow rules, each group in the order of its
\* list; the length is the sum of the lengths of the three lists, an absent
\* list counting as empty, and each rule has the decision of its list.
C14_NormalizationOrder ==
  (Converted /\ ~result[1].threw) =>
    LET config == call.config
        policies == result[1].policies
        nExclude == Len(ConfigList(config, "exclude"))
        nAsk == Len(ConfigList(config, "ask"))
        nAllow == Len(ConfigList(config, "allow"))
    IN /\ Len(policies) = nExclude + nAsk + nAllow
       /\ \A i \in 1..nExclude :
            /\ policies[i] = PolicyOf(config, "exclude", i)
            /\ policies[i].permission = "exclude"
       /\ \A i \in 1..nAsk :
            /\ policies[nExclude + i] = PolicyOf(config, "ask", i)
            /\ policies[nExclude + i].permission = "ask"
       /\ \A i \in 1..nAllow :
            /\ policies[nExclude + nAsk + i] = PolicyOf(config, "allow", i)
            /\ policies[nExclude + nAsk + i].permission = "allow"

\* A config with an allow list of two different patterns, an ask list, and no
\* exclude key.
C14_Witness ==
  /\ Converted
  /\ ~result[1].threw
  /\ "exclude" \notin DOMAIN call.config
  /\ "ask" \in DOMAIN call.config
  /\ "allow" \in DOMAIN call.config
  /\ Len(ConfigList(call.config, "ask")) = 1
  /\ Len(ConfigList(call.config, "allow")) = 2
  /\ ConfigList(call.config, "allow")[1] # ConfigList(call.config, "allow")[2]
  /\ Len(result[1].policies) = 3
  /\ result[1].policies[1].permission = "ask"
  /\ result[1].policies[3].permission = "allow"

\* The names the table of parseToolPattern gives a key.
ClaimedKey(name) ==
  IF name \in {s_run_terminal_command, s_runTerminalCommand} THEN "command"
  ELSE IF Lookup(toolArgMappings, name) # <<>> THEN Lookup(toolArgMappings, name)[1]
  ELSE "pattern"

\* C15: pattern decomposition: parseToolPattern makes of a bare name the rule
\* {tool: name, permission} and of name(argsLiteral) the rule {tool: name,
\* permission, argumentMatches: {key: argsLiteral}}, key being the table's
\* for the names of the table and the fallback "pattern" for every other
\* name; name and argsLiteral are trimmed; empty or blank parentheses give
\* no argument patterns.
C15_PatternDecomposition ==
  (Parsed /\ ~result[1].threw) =>
    LET pattern == call.pattern
        open == IndexOf(pattern, "(")
        name == Trim(IF open = 0 THEN pattern ELSE SubSeq(pattern, 1, open - 1))
        argsLiteral == IF open = 0 THEN <<>>
                       ELSE Trim(SubSeq(pattern, open + 1, Len(pattern) - 1))
        policy == result[1].policy[1]
    IN /\ policy.tool = name
       /\ policy.permission = call.permission
       /\ policy.argumentMatches =
            IF argsLiteral = <<>> THEN <<>>
            ELSE <<[k \in {ClaimedKey(name)} |-> argsLiteral]>>

\* The number of c among the first n characters of s.
Count(s, c, n) == Cardinality({i \in 1..n : s[i] = c})

\* Parentheses that do not pair up: a closing one without an opening one, an
\* opening one inside an open pair, or an opening one never closed.
Unbalanced(pattern) ==
  \/ \E n \in 0..Len(pattern) :
       \/ Count(pattern, ")", n) > Count(pattern, "(", n)
       \/ Count(pattern, "(", n) > Count(pattern, ")", n) + 1
  \/ Count(pattern, "(", Len(pattern)) # Count(pattern, ")", Len(pattern))

\* C16: every pattern string with unbalanced parentheses makes parseToolPattern
\* throw, and makes yamlConfigToPolicies throw for a config that has it in a
\* list; no rule is made of such a pattern.
C16_UnbalancedThrows ==
  /\ (Parsed /\ Unbalanced(call.pattern)) =>
       (result[1].threw /\ result[1].policy = <<>>)
  /\ (Converted /\ \E key \in validKeys : \E i \in 1..Len(ConfigList(call.config, key)) :
                     Unbalanced(ConfigList(call.config, key)[i])) =>
       result[1].threw

-----------------------------------------------------------------------------
(* Properties of the matcher, checked under MatcherSpec *)

MatchedTool == result # <<>> /\ call.fn = "matchesToolPattern"
MatchedArguments == result # <<>> /\ call.fn = "matchesArguments"

\* Glob matching as the specification words it: the lengths of the prefixes
\* of s that the first k characters of pattern match, * standing for zero or
\* more arbitrary characters, ? for exactly one arbitrary character, every
\* other character for itself.
RECURSIVE GlobEnds(_, _, _)
GlobEnds(pattern, k, s) ==
  IF k = 0 THEN {0}
  ELSE LET before == GlobEnds(pattern, k - 1, s) IN
       IF pattern[k] = "*" THEN {n \in 0..Len(s) : \E m \in before : m <= n}
       ELSE IF pattern[k] = "?" THEN {m + 1 : m \in {j \in before : j < Len(s)}}
       ELSE {m + 1 : m \in {j \in before : j < Len(s) /\ s[j + 1] = pattern[k]}}

GlobMatches(pattern, s) == Len(s) \in GlobEnds(pattern, Len(pattern), s)

TerminalToolNames == {s_run_terminal_command, s_runTerminalCommand}

\* A pattern of the shape <terminalToolName>(<argPattern>).
TerminalShape(pattern) ==
  \E name \in TerminalToolNames :
    /\ StartsWith(pattern, name \o <<"(">>)
    /\ Len(pattern) >= Len(name) + 3
    /\ pattern[Len(pattern)] = ")"

\* The <argPattern> of such a pattern.
ArgPattern(pattern) ==
  SubSeq(pattern, IndexOf(pattern, "(") + 1, Len(pattern) - 1)

\* C17: name matching for a pattern not of the terminal-command shape:
\* matchesToolPattern is true when the pattern is "*" or equals the name,
\* whatever the arguments; otherwise, when the pattern has a * or a ?, it is
\* true iff the whole name matches the pattern, * standing for zero or more
\* arbitrary characters, ? for exactly one, every other character for
\* itself; otherwise it is false.
C17_NameMatching ==
  (MatchedTool /\ ~TerminalShape(call.pattern)) =>
    result[1] =
      (\/ call.pattern = s_star
       \/ call.pattern = call.toolName
       \/ HasGlob(call.pattern) /\ GlobMatches(call.pattern, call.toolName))

\* C18: terminal-command pattern: for a pattern <terminalToolName>(<argPattern>)
\* and the name of a terminal tool, matchesToolPattern is true iff the command
\* argument of the call matches <argPattern>: as a glob when <argPattern> has
\* a * or a ?, by equality otherwise; for every command, the empty one too.
C18_TerminalCommandPattern ==
  (MatchedTool /\ TerminalShape(call.pattern) /\ call.toolName \in TerminalToolNames) =>
    result[1] =
      (/\ HasArg(call.toolArguments, "command")
       /\ IF HasGlob(ArgPattern(call.pattern))
            THEN GlobMatches(ArgPattern(call.pattern), call.toolArguments["command"])
            ELSE call.toolArguments["command"] = ArgPattern(call.pattern))

\* C19: a pattern of the terminal-command shape never matches a tool whose
\* name is not a terminal tool's, whatever the arguments and whatever the
\* name has to do with the text of the pattern.
C19_TerminalPatternOnlyTerminalTool ==
  (MatchedTool /\ TerminalShape(call.pattern) /\ call.toolName \notin TerminalToolNames) =>
    result[1] = FALSE

\* The declared keys of the call that do not match: the pattern is not "*",
\* and either is a glob that the string form of the argument (empty when the
\* argument is missing) does not match, or is no glob and is not the
\* argument's value.  The glob is the compiled one of matchesToolPattern.
FailingKeys ==
  {key \in DOMAIN call.patterns[1] :
     LET pattern == call.patterns[1][key]
         present == key \in DOMAIN call.toolArguments
     IN /\ pattern # s_star
        /\ \/ HasGlob(pattern)
                /\ ~RegexTest(pattern, IF present THEN call.toolArguments[key] ELSE <<>>)
           \/ ~HasGlob(pattern)
                /\ (~present \/ call.toolArguments[key] # pattern)}

-----------------------------------------------------------------------------
(* Properties of filterExcludedTools, checked under FilterSpec *)

\* What checkToolPermission makes of the i-th tool of the call, evaluated
\* with empty arguments and no processed arguments.
BulkDecision(i) ==
  checkToolPermission(call.tools[i].name, NoArguments, call.policies, <<>>,
                      <<call.tools[i]>>).permission

Surviving == {i \in 1..Len(call.tools) : BulkDecision(i) # "exclude"}

\* The k-th smallest of the surviving indices.
KthSurviving(k) ==
  CHOOSE i \in Surviving : Cardinality({j \in Surviving : j <= i}) = k

\* C21: filterExcludedTools returns the tools whose evaluation with empty
\* arguments is not exclude, in their order in the input; its length is the
\* input's less the number of tools evaluated to exclude; the input list is
\* as it was.
C21_FilterKeepsOrder ==
  result # <<>> =>
    LET filtered == result[1].filtered IN
    /\ Len(filtered) =
         Len(call.tools) - Cardinality({i \in 1..Len(call.tools) : BulkDecision(i) = "exclude"})
    /\ Len(filtered) = Cardinality(Surviving)
    /\ \A k \in 1..Len(filtered) : filtered[k] = call.tools[KthSurviving(k)]
    /\ result[1].tools = call.tools

\* Of three different tools the one in the middle is excluded.
C21_Witness ==
  /\ result # <<>>
  /\ Len(call.tools) = 3
  /\ Surviving = {1, 3}
  /\ call.tools[1] # call.tools[3]
  /\ BulkDecision(1) # BulkDecision(3)
  /\ result[1].filtered = <<call.tools[1], call.tools[3]>>

\* The exclude policies of the call whose tool pattern matches the name.
ExcludeRulesFor(name) ==
  {i \in 1..Len(call.policies) :
     /\ call.policies[i].permission = "exclude"
     /\ matchesToolPattern(name, call.policies[i].tool, NoArguments)}

InFiltered(i) == \E k \in 1..Len(result[1].filtered) : result[1].filtered[k] = call.tools[i]

\* C22 as stated: a tool without a dynamic evaluation is kept by
\* filterExcludedTools whenever every exclude policy that matches its name
\* has argument patterns.
C22_AsStated ==
  result # <<>> =>
    \A i \in 1..Len(call.tools) :
      (/\ call.tools[i].evaluateToolCallPolicy = <<>>
       /\ \A r \in ExcludeRulesFor(call.tools[i].name) :
            call.policies[r].argumentMatches # <<>>)
        => InFiltered(i)

\* Argument patterns that a call without arguments does not satisfy: some
\* key's pattern is not "*" and not a glob that matches the empty string.
NeedsArguments(argumentMatches) ==
  /\ argumentMatches # <<>>
  /\ \E key \in DOMAIN argumentMatches[1] :
       LET pattern == argumentMatches[1][key] IN
       /\ pattern # s_star
       /\ HasGlob(pattern) => ~GlobMatches(pattern, <<>>)

\* C22, amended: a tool without a dynamic evaluation is kept by
\* filterExcludedTools whenever every exclude policy that matches its name
\* has argument patterns that empty arguments do not satisfy.  (name(*) in
\* the exclude list hides the tool.)
C22_ArgumentRuleKeepsTool ==
  result # <<>> =>
    \A i \in 1..Len(call.tools) :
      (/\ call.tools[i].evaluateToolCallPolicy = <<>>
       /\ \A r \in ExcludeRulesFor(call.tools[i].name) :
            NeedsArguments(call.policies[r].argumentMatches))
        => InFiltered(i)

\* The terminal tool is kept although sudo commands are excluded, and a sudo
\* invocation of it is excluded.
C22_Witness ==
  /\ result # <<>>
  /\ \E i \in 1..Len(call.tools) :
       /\ call.tools[i] = Tool(s_run_terminal_command, <<>>)
       /\ ExcludeRulesFor(s_run_terminal_command) # {}
       /\ \A r \in ExcludeRulesFor(s_run_terminal_command) :
            NeedsArguments(call.policies[r].argumentMatches)
       /\ InFiltered(i)
       /\ checkToolPermission(s_run_terminal_command, CommandArguments(s_sudo_rm),
                              call.policies, <<>>, <<call.tools[i]>>).permission = "exclude"

-----------------------------------------------------------------------------
(* Loading and checking end to end: a config is converted by
   yamlConfigToPolicies and a call is checked against the policies, as under
   "Loading Permissions" and "Checking Permissions" of the README *)

s_git_log_glob == <<"g","i","t"," ","l","o","g","*">>
s_git_log_1 == <<"g","i","t"," ","l","o","g"," ","-","1">>
s_npm_test == <<"n","p","m"," ","t","e","s","t">>

\* {exclude: ["run_terminal_command(G)"], ask: ["run_terminal_command"], allow: ["*"]}
E2EConfig(G) ==
  [exclude |-> ListValue(<<WithArgs(s_run_terminal_command, G)>>),
   ask |-> ListValue(<<s_run_terminal_command>>),
   allow |-> ListValue(<<s_star>>)]

\* The argument globs G: with *, with ?, "*" itself, and a plain command.
E2EGlobs == {s_sudo_glob, s_l_q, s_star, s_git_status}

\* "Restricted Environment" of the README.
RestrictedConfig ==
  [allow |-> ListValue(<<WithArgs(s_run_terminal_command, s_git_status),
                         WithArgs(s_run_terminal_command, s_git_log_glob),
                         WithArgs(s_run_terminal_command, s_npm_test)>>),
   exclude |-> ListValue(<<WithArgs(s_run_terminal_command, s_star)>>)]

E2EConfigs == {E2EConfig(G) : G \in E2EGlobs} \cup {RestrictedConfig}

E2EToolNames == {s_run_terminal_command, s_read_file, s_unknown_tool}

E2EArguments ==
  {NoArguments} \cup
  {CommandArguments(c) :
     c \in {s_git_status, s_git_log_1, s_npm_test, s_ls, s_sudo_rm, s_sudo_nl, s_empty}}

E2EInit ==
  /\ \E config \in E2EConfigs, toolName \in E2EToolNames, toolArguments \in E2EArguments :
       call = [config |-> config, toolName |-> toolName, toolArguments |-> toolArguments]
  /\ result = <<>>
  /\ file = MissingFile
  /\ permissions = Null
  /\ enabled = FALSE
  /\ watchHandle = 0
  /\ handles = <<>>
  /\ events = <<>>
  /\ inits = [mkdir |-> 0, write |-> 0, resolved |-> 0]
  /\ escaped = FALSE
  /\ counts = [initialize |-> 0, changes |-> 0, reloads |-> 0]
  /\ last = Last("none", NoRead, Null, <<>>)
  /\ disposed = FALSE
  /\ history = NoHistory
  /\ observed = NoObservation

\* const permissions = { policies: yamlConfigToPolicies(yamlConfig) };
\* checkToolPermission(toolName, toolArguments, permissions)
LoadAndCheck ==
  /\ result = <<>>
  /\ LET built == yamlConfigToPolicies(call.config)
     IN result' = <<[threw |-> built.threw,
                     policies |-> built.policies,
                     check |-> checkToolPermission(call.toolName, call.toolArguments,
                                                   built.policies, <<>>, <<>>)]>>
  /\ UNCHANGED <<call, observed>>
  /\ UNCHANGED serviceVars

E2ENext == LoadAndCheck

E2ESpec == E2EInit /\ [][E2ENext]_vars

\* The command of the call matches G: as a glob (a missing command being the
\* empty string) when G has a * or a ?, by equality otherwise.
CommandMatches(G, toolArguments) ==
  LET present == "command" \in DOMAIN toolArguments
      command == IF present THEN toolArguments["command"] ELSE <<>>
  IN IF HasGlob(G) THEN GlobMatches(G, command) ELSE present /\ command = G

\* C23: end-to-end layering: the config that excludes the terminal tool under
\* an argument glob G, asks for the terminal tool and allows "*" becomes three
\* rules in that order; a terminal call whose command matches G is excluded,
\* every other terminal call is asked for, every call of another tool allowed.
C23_EndToEndLayering ==
  \A G \in E2EGlobs :
    (result # <<>> /\ call.config = E2EConfig(G)) =>
      /\ ~result[1].threw
      /\ Len(result[1].policies) = 3
      /\ result[1].policies[1] =
           PolicyWithArgs(s_run_terminal_command, "exclude", "command", G)
      /\ result[1].policies[2] = Policy(s_run_terminal_command, "ask")
      /\ result[1].policies[3] = Policy(s_star, "allow")
      /\ result[1].check.permission =
           IF call.toolName # s_run_terminal_command THEN "allow"
           ELSE IF CommandMatches(G, call.toolArguments) THEN "exclude"
           ELSE "ask"

\* The allow entries of the restricted environment.
RestrictedAllowed == {s_git_status, s_git_log_glob, s_npm_test}

\* C24: restricted environment: with allow = [run_terminal_command(git
\* status), run_terminal_command(git log*), run_terminal_command(npm test)]
\* and exclude = [run_terminal_command(*)], a terminal call is allowed when
\* its command matches an allow entry and excluded otherwise.
C24_RestrictedEnvironment ==
  (result # <<>> /\ call.config = RestrictedConfig
     /\ call.toolName = s_run_terminal_command) =>
    result[1].check.permission =
      IF \E G \in RestrictedAllowed : CommandMatches(G, call.toolArguments)
        THEN "allow" ELSE "exclude"

-----------------------------------------------------------------------------
(* Properties of the service over several reloads, checked under Spec *)

\* C25: reload is idempotent on an unchanged source: a reload() that reads
\* the content the reload() before it read leaves a store that is null when
\* the former was null and otherwise gives, for every tool and arguments, the
\* results (decision and matched rule) the former store gave.
C25_ReloadIdempotent ==
  (last.op \in ReloadSteps /\ history.unchanged) =>
    /\ permissions.isNull = last.prev.isNull
    /\ permissions.policies = last.prev.policies
    /\ \A c \in ServiceCalls : Evaluated(c, permissions) = Evaluated(c, last.prev)

\* The second of two reloads of the same content, with two or more rules, one
\* of which restricts a call.
C25_Witness ==
  /\ last.op \in ReloadSteps
  /\ history.unchanged
  /\ counts.reloads >= 2
  /\ ~permissions.isNull
  /\ Len(permissions.policies) >= 2
  /\ \E c \in ServiceCalls :
       /\ Evaluated(c, permissions).permission # "allow"
       /\ Evaluated(c, permissions).matchedPolicy # <<>>

\* Glob patterns made of the metacharacters of regular expressions.
MetacharacterPatterns ==
  { <<"a","(","*">>,
    <<"*",")","+","?">>,
    <<"[","?">>,
    <<"x","\\","*">>,
    <<"+","*">>,
    <<"^","$","|",".","{","}","*">> }

\* Policies that bring a pattern to each new RegExp of the evaluation of a
\* call: as a tool pattern, as the command pattern of a terminal pattern, and
\* as an argument pattern under a rule that matches the tool.
MetacharacterPolicies(toolName, pattern) ==
  <<Policy(pattern, "exclude"),
    Policy(WithArgs(s_run_terminal_command, pattern), "exclude"),
    PolicyWithArgs(toolName, "ask", "command", pattern)>>

\* checkToolPermission returns for the tools and arguments of the calls under
\* each of these policy lists.
MetacharacterTotal ==
  \A c \in ServiceCalls, pattern \in MetacharacterPatterns :
    ~checkToolPermissionThrows(c.tool.name, c.toolArguments,
                               MetacharacterPolicies(c.tool.name, pattern))

-----------------------------------------------------------------------------
(* Properties of the dynamic evaluation, checked under EvaluatorSpec *)

\* The evaluator of the tool of the call answers outside the ToolPolicy
\* vocabulary.
OutOfVocabulary ==
  /\ HasDynamicPolicy(call.tool)
  /\ \A base \in ToolPolicies :
       evaluateToolCallPolicy(call.tool[1].evaluateToolCallPolicy[1], base,
                              call.toolArguments, call.processedArgs)
         \notin ToolPolicies

\* C27: the decision of every result is one of allow, ask, exclude, also when
\* the dynamic evaluation of the tool returns a value outside its vocabulary,
\* which counts as ask: the result is then ask, or exclude when the static
\* base is exclude.
C27_DecisionInVocabulary ==
  result # <<>> =>
    /\ result[1].permission \in PermissionPolicies
    /\ OutOfVocabulary =>
         result[1].permission = IF StaticBase = "exclude" THEN "exclude" ELSE "ask"

\* A statically allowed call whose tool answered outside the vocabulary.
C27_Witness ==
  /\ result # <<>>
  /\ OutOfVocabulary
  /\ StaticBase = "allow"
  /\ result[1].permission = "ask"

\* C29: the matched static rule is reported whatever the dynamic evaluation
\* does: matchedPolicy is the first policy that matches the call, absent
\* exactly when none matches, and is the same for every tool parameter the
\* call could have been made with.
C29_MatchedPolicyReported ==
  result # <<>> =>
    /\ result[1].matchedPolicy = <<>> <=> Matching = {}
    /\ \A i \in Matching :
         (\A j \in Matching : i <= j) => result[1].matchedPolicy = <<call.policies[i]>>
    /\ \A tool \in ToolsNamed(call.toolName) :
         checkToolPermission(call.toolName, call.toolArguments, call.policies,
                             call.processedArgs, tool).matchedPolicy
           = result[1].matchedPolicy

\* The dynamic evaluation overrode the decision of the matched policy, which
\* is reported all the same.
C29_Witness ==
  /\ result # <<>>
  /\ HasDynamicPolicy(call.tool)
  /\ result[1].matchedPolicy # <<>>
  /\ result[1].matchedPolicy[1].permission = "allow"
  /\ result[1].permission = "exclude"

\* allow -> allowedWithoutPermission, ask -> allowedWithPermission,
\* exclude -> disabled
RiskVocabulary ==
  [allow |-> "allowedWithoutPermission", ask |-> "allowedWithPermission",
   exclude |-> "disabled"]

\* C30: a tool with a dynamic evaluation has it called exactly once per
\* check, with the static base in the risk vocabulary (also when the base is
\* exclude), the raw arguments and the processed arguments; a tool without
\* one, or no tool, has none called.  Translating a decision to the risk
\* vocabulary and back gives the decision.
C30_DynamicEvaluationOnce ==
  /\ \A p \in PermissionPolicies :
       /\ permissionPolicyToToolPolicy(p) = RiskVocabulary[p]
       /\ toolPolicyToPermissionPolicy(permissionPolicyToToolPolicy(p)) = p
  /\ result # <<>> =>
       IF HasDynamicPolicy(call.tool)
         THEN observed.evaluations =
                <<[basePolicy |-> RiskVocabulary[StaticBase],
                   toolArguments |-> call.toolArguments,
                   processedArgs |-> call.processedArgs]>>
         ELSE observed.evaluations = <<>>

\* The dynamic evaluation of an excluded call was called, with processed
\* arguments.
C30_Witness ==
  /\ result # <<>>
  /\ HasDynamicPolicy(call.tool)
  /\ StaticBase = "exclude"
  /\ call.processedArgs # <<>>
  /\ call.toolArguments # NoArguments
  /\ Len(observed.evaluations) = 1
  /\ observed.evaluations[1].basePolicy = "disabled"

-----------------------------------------------------------------------------
(* The lifecycle of the service, checked under Spec *)

\* reload() makes a non-null store of the content f.
LoadsPolicies(f) ==
  /\ Exists(f)
  /\ loadPermissionsYaml(f) # <<>>
  /\ ~yamlConfigToPolicies(loadPermissionsYaml(f)[1]).threw

\* The most recent reload() produced a non-null store.
LastReloadLoaded == counts.reloads >= 1 /\ LoadsPolicies(history.read)

\* checkPermission consults checkToolPermission exactly when isEnabled().
ConsultsWhenEnabled ==
  last.op = "check" =>
    /\ ~last.check[1].evaluated.isNull <=> isEnabled
    /\ last.check[1].result =
         IF isEnabled THEN Evaluated(last.check[1], permissions) ELSE Allowed

\* C28 as stated: isEnabled() is true exactly when some initialize() call has
\* completed without failure and the most recent reload produced a non-null
\* store.
C28_AsStated ==
  isEnabled <=> (history.completedOk /\ LastReloadLoaded)

\* C28: isEnabled() is true exactly when the initialize() call that completed
\* last completed without failure and the most recent reload produced a
\* non-null store; it is false before any initialize() completes; a load
\* error in a reload of an enabled service disables it; and checkPermission
\* consults the evaluator exactly when isEnabled() is true.
C28_Lifecycle ==
  /\ isEnabled <=> (history.initialized = "ok" /\ LastReloadLoaded)
  /\ history.initialized = "none" => ~isEnabled
  /\ (last.op = "watchReload" /\ ~LoadsPolicies(last.read)) => ~isEnabled
  /\ ConsultsWhenEnabled

\* An initialize() succeeded and loaded policies that restrict a call, a
\* later initialize() failed, and the call was allowed without evaluation.
C28_Witness ==
  /\ last.op = "check"
  /\ history.completedOk
  /\ history.initialized = "failed"
  /\ LastReloadLoaded
  /\ ~isEnabled
  /\ last.check[1].evaluated.isNull
  /\ Evaluated(last.check[1], permissions).permission # "allow"

-----------------------------------------------------------------------------
(* Hot reload and the watch, checked under Spec *)

\* The store is what reload() makes of the content f: null when f cannot be
\* loaded, the policies of f otherwise.
StoreIsOf(f) ==
  IF LoadsPolicies(f)
    THEN /\ ~permissions.isNull
         /\ permissions.policies = yamlConfigToPolicies(loadPermissionsYaml(f)[1]).policies
    ELSE permissions.isNull

\* The watch is live, every notification has been delivered and no
\* initialize() is under way.
Quiescent ==
  /\ HoldsLiveWatch
  /\ events = <<>>
  /\ inits = [mkdir |-> 0, write |-> 0, resolved |-> 0]

\* A notification left the queue and no watcher was closed: the callback
\* given to fs.watch was called with it.
Delivered == Len(events') < Len(events) /\ handles' = handles

WatchSetupFailed == last.op = "initialize" /\ ~HoldsLiveWatch

\* C32: an error of the watch setup does not disable the service: when
\* fs.watch throws in initialize(), initialize() completes without throwing,
\* the service is enabled with the store of the initial load, checkPermission
\* enforces that store, and no watcher is open and no notification is queued,
\* so that the store stays as it is whatever happens to the file.
C32_WatchSetupFailure ==
  WatchSetupFailed =>
    /\ ~escaped
    /\ enabled
    /\ history.initialized = "ok"
    /\ StoreIsOf(last.read)
    /\ Live = {}
    /\ events = <<>>
    /\ \A c \in ServiceCalls :
         checkPermission(c.tool, c.toolArguments, <<>>) =
           IF permissions.isNull THEN Allowed ELSE Evaluated(c, permissions)

\* The watch setup of an initialize() failed, the file has been changed
\* since, and the service still enforces the policies of the initial load.
C32_Witness ==
  /\ WatchSetupFailed
  /\ file # last.read
  /\ LoadsPolicies(file)
  /\ isEnabled
  /\ counts.changes >= 1
  /\ \E c \in ServiceCalls :
       checkPermission(c.tool, c.toolArguments, <<>>).permission = "exclude"

\* writeFile resolved and the initialize() that waited for it completed.
Created == inits'.write < inits.write /\ last'.op = "initialize"

C34_ImmutabilityAndFrame ==
  /\ []((last.op \in ReloadSteps /\ ~permissions.isNull) =>
          /\ \A i \in DOMAIN permissions.alloc : permissions.alloc[i] = counts.reloads
          /\ \A i \in DOMAIN last.prev.alloc : last.prev.alloc[i] < counts.reloads)
  /\ [][/\ (permissions' # permissions \/ enabled' # enabled) =>
             \/ counts'.reloads = counts.reloads + 1
             \/ last'.op = "initializeFailed" /\ inits' # inits
        /\ last'.op \in {"check", "dispose"} =>
             /\ permissions' = permissions
             /\ enabled' = enabled
        /\ (last'.op = "check" /\ last' # last) =>
             \E c \in ServiceCalls :
               /\ last'.check[1].tool = c.tool
               /\ last'.check[1].toolArguments = c.toolArguments
               /\ last'.check[1].evaluated \in {Null, permissions}]_vars

\* dispose() was called on a service that a second or later reload() had given
\* policies: it closed the watcher and the store and the flag are as they were.
C34_Witness ==
  /\ last.op = "dispose"
  /\ ~HoldsLiveWatch
  /\ Live = {}
  /\ Len(handles) >= 1
  /\ isEnabled
  /\ permissions.policies # <<>>
  /\ counts.reloads >= 2
  /\ permissions.alloc[1] = counts.reloads

\* C35: at most one watcher is open at any time: after any interleaving of
\* initialize() and dispose() every watcher the service has created is
\* closed, except possibly the one this.watchHandle refers to; so the queue
\* holds notifications for that watcher only, and one change of the file
\* queues at most one notification, that is at most one reload.
C35_OneLiveWatch ==
  /\ [](/\ Live \subseteq {watchHandle}
        /\ Cardinality(Live) <= 1
        /\ \A i \in DOMAIN events : events[i].handle = watchHandle)
  /\ [][Len(events') <= Len(events) + 1]_vars

\* The service has created a second watcher; it is open, an earlier one has
\* been closed once, and a change of the file has queued one notification.
C35_Witness ==
  /\ Len(handles) >= 2
  /\ disposed = FALSE
  /\ \E h \in DOMAIN handles : h # watchHandle /\ handles[h].closes = 1
  /\ Live = {watchHandle}
  /\ Len(events) = 1
  /\ counts.changes = 1

-----------------------------------------------------------------------------
(* Precedence of the categories, checked under E2ESpec *)

\* The permissions of the policies built from the config that match the call.
MatchingPermissions ==
  {result[1].policies[i].permission :
     i \in {j \in 1..Len(result[1].policies) :
              /\ matchesToolPattern(call.toolName, result[1].policies[j].tool,
                                    call.toolArguments)
              /\ matchesArguments(call.toolArguments,
                                  result[1].policies[j].argumentMatches)}}

-----------------------------------------------------------------------------
(* Recovery by hot reload, checked under Spec *)

\* C37: disabled is recoverable by hot reload: when the store of an
\* initialized service is null because a reload() found nothing valid, the
\* reload() of the next change notification that finds a valid file installs
\* its policies, and isEnabled() is true again with no further initialize().
C37_RecoverableByHotReload ==
  (last.op = "watchReload" /\ enabled /\ last.prev.isNull /\ LoadsPolicies(last.read)) =>
    /\ isEnabled
    /\ StoreIsOf(last.read)
    /\ \A c \in ServiceCalls :
         checkPermission(c.tool, c.toolArguments, <<>>) = Evaluated(c, permissions)

\* After one initialize() the file was changed twice: the reload() of the
\* first notification left the store null, that of the second found a valid
\* file and the service is enabled with its policies.
C37_Witness ==
  /\ last.op = "watchReload"
  /\ counts = [initialize |-> 1, changes |-> 2, reloads |-> 3]
  /\ last.prev.isNull
  /\ LoadsPolicies(last.read)
  /\ isEnabled
  /\ permissions.policies # <<>>
  /\ HoldsLiveWatch

-----------------------------------------------------------------------------
(* The two forms of a terminal-command rule, checked under MatcherSpec *)

\* The policy parseToolPattern makes of the pattern of the call matches the
\* call: its tool matches the name and its argumentMatches the arguments.
NormalizedMatches ==
  LET policy == parseToolPattern(call.pattern, "exclude").policy[1]
  IN /\ matchesToolPattern(call.toolName, policy.tool, call.toolArguments)
     /\ matchesArguments(call.toolArguments, policy.argumentMatches)

\* C38: the two forms of a terminal-command restriction agree: a policy
\* whose tool is the string "run_terminal_command(P)" and the policy
\* parseToolPattern makes of that string, with tool "run_terminal_command"
\* and argumentMatches {command: P}, match the same calls of the terminal
\* tool, those with an empty command or none included.
C38_RepresentationsAgree ==
  (/\ MatchedTool
   /\ TerminalShape(call.pattern)
   /\ StartsWith(call.pattern, s_run_terminal_command)
   /\ call.toolName = s_run_terminal_command) =>
    /\ ~parseToolPattern(call.pattern, "exclude").threw
    /\ result[1] = NormalizedMatches

-----------------------------------------------------------------------------
(* gui/src/components/StyledMarkdownPreview/utils/isOpeningNestedBlock.ts *)

\* "backtick" stands for the backtick character.
s_backtick == <<"backtick">>
s_fence == <<"backtick", "backtick", "backtick">>
s_tildes == <<"~", "~", "~">>
s_md == <<"m", "d">>
s_js == <<"j", "s">>
s_text == <<"x">>

\* line.match(/^B+$/), B the backtick
BareBackticks(line) == line # <<>> /\ \A i \in DOMAIN line : line[i] = "backtick"

\* line.replaceAll(B, ""), B the backtick
RemoveBackticks(line) == SelectSeq(line, LAMBDA ch : ch # "backtick")

\* headerIsMarkdown is imported from ./headerIsMarkdown: markdown stands for
\* the set of headers it answers true for.
headerIsMarkdown(header, markdown) == header \in markdown

\* The look-ahead loop from index j on (j counts from 0 as in the code).
RECURSIVE LookAhead(_, _, _, _)
LookAhead(trimmedLines, j, bareBackticksAhead, markdown) ==
  IF ~(j < Len(trimmedLines)) THEN bareBackticksAhead
  ELSE IF BareBackticks(trimmedLines[j + 1])
    THEN LookAhead(trimmedLines, j + 1, bareBackticksAhead + 1, markdown)
  ELSE IF \/ StartsWith(trimmedLines[j + 1], s_tildes)
          \/ /\ StartsWith(trimmedLines[j + 1], s_fence)
             /\ headerIsMarkdown(RemoveBackticks(trimmedLines[j + 1]), markdown)
    THEN bareBackticksAhead
  ELSE LookAhead(trimmedLines, j + 1, bareBackticksAhead, markdown)

\* The loop without its break.
RECURSIVE LookAheadNoBreak(_, _, _, _)
LookAheadNoBreak(trimmedLines, j, bareBackticksAhead, markdown) ==
  IF ~(j < Len(trimmedLines)) THEN bareBackticksAhead
  ELSE LookAheadNoBreak(trimmedLines, j + 1,
                        IF BareBackticks(trimmedLines[j + 1])
                          THEN bareBackticksAhead + 1 ELSE bareBackticksAhead,
                        markdown)

\* An isOpeningNestedBlock that looks ahead to the end of the lines.
isOpeningNestedBlockNoBreak(trimmedLines, currentIndex, nestCount, markdown) ==
  IF nestCount > 1 THEN FALSE
  ELSE LookAheadNoBreak(trimmedLines, currentIndex + 1, 0, markdown) % 2 = 1

isOpeningNestedBlock(trimmedLines, currentIndex, nestCount, markdown) ==
  IF nestCount > 1 THEN FALSE
  ELSE LookAhead(trimmedLines, currentIndex + 1, 0, markdown) % 2 = 1

\* The harness: isOpeningNestedBlock applied to drawn lines, an index of one
\* of them and a nesting level.
MaxLines == 4
MaxNestCount == 2

\* B, BBB, ~~~, BBBmd, BBBjs, x (B the backtick)
TrimmedLinePool ==
  {s_backtick, s_fence, s_tildes, s_fence \o s_md, s_fence \o s_js, s_text}

TrimmedLines == UNION {[1..n -> TrimmedLinePool] : n \in 1..MaxLines}

Headers == {s_md, s_js}

NestedBlockInit ==
  /\ \E trimmedLines \in TrimmedLines, nestCount \in 0..MaxNestCount,
        markdown \in SUBSET Headers :
       \E currentIndex \in 0..(Len(trimmedLines) - 1) :
         call = [trimmedLines |-> trimmedLines, currentIndex |-> currentIndex,
                 nestCount |-> nestCount, markdown |-> markdown]
  /\ result = <<>>
  /\ file = MissingFile
  /\ permissions = Null
  /\ enabled = FALSE
  /\ watchHandle = 0
  /\ handles = <<>>
  /\ events = <<>>
  /\ inits = [mkdir |-> 0, write |-> 0, resolved |-> 0]
  /\ escaped = FALSE
  /\ counts = [initialize |-> 0, changes |-> 0, reloads |-> 0]
  /\ last = Last("none", NoRead, Null, <<>>)
  /\ disposed = FALSE
  /\ history = NoHistory
  /\ observed = NoObservation

IsOpeningNestedBlock ==
  /\ result = <<>>
  /\ result' = <<isOpeningNestedBlock(call.trimmedLines, call.currentIndex,
                                      call.nestCount, call.markdown)>>
  /\ UNCHANGED <<call, observed>>
  /\ UNCHANGED serviceVars

NestedBlockNext == IsOpeningNestedBlock

NestedBlockSpec == NestedBlockInit /\ [][NestedBlockNext]_vars

\* The line (counted from 1) ends the markdown block: it starts with ~~~, or
\* with three backticks followed by a header that is markdown.
Terminator(n) ==
  LET line == call.trimmedLines[n] IN
  \/ StartsWith(line, s_tildes)
  \/ /\ StartsWith(line, s_fence)
     /\ ~BareBackticks(line)
     /\ SubSeq(line, 4, Len(line)) \in call.markdown

\* The lines after the current one, up to the first terminator or the end.
Ahead ==
  {n \in (call.currentIndex + 2)..Len(call.trimmedLines) :
     \A m \in (call.currentIndex + 2)..n : ~Terminator(m)}

BareAhead == {n \in Ahead : BareBackticks(call.trimmedLines[n])}

\* C39: isOpeningNestedBlock returns false whenever nestCount > 1; otherwise
\* it returns true iff the number of lines of backticks only after
\* currentIndex, counted up to the first terminator (a line that starts with
\* ~~~ or a fence of three backticks with a markdown header) or the end of
\* the lines, is odd.
C39_IsOpeningNestedBlock ==
  result # <<>> =>
    result[1] = (call.nestCount <= 1 /\ Cardinality(BareAhead) % 2 = 1)

\* At the top level a markdown fence ends the look-ahead before a line of
\* backticks that is not counted: the one line counted opens a nested block.
C39_Witness ==
  /\ result = <<TRUE>>
  /\ call.nestCount = 1
  /\ call.currentIndex = 0
  /\ Len(call.trimmedLines) = 4
  /\ BareBackticks(call.trimmedLines[2])
  /\ call.trimmedLines[3] = s_fence \o s_md
  /\ Terminator(3)
  /\ BareBackticks(call.trimmedLines[4])
  /\ BareAhead = {2}
=============================================================================
